---- MODULE Spec2Model ----
(***************************************************************************)
(* A model of the PureMVC TypeScript core: the View's observer lists and   *)
(* mediator map, the Controller's command map, the Model's proxy map, the  *)
(* Facade's delegation, and the asynchronous notification dispatch         *)
(* (View.notifyObservers) as a process that starts a handler, waits for    *)
(* it to settle and resumes.                                               *)
(***************************************************************************)
EXTENDS Integers, Sequences, FiniteSets, TLC

\* ------------------------------------------------------------------ bounds

\* Most observer entries one View holds at a time, over all names.
MaxObs == 3
\* In-flight or finished calls the application keeps a handle on.
MaxCalls == 2

\* ------------------------------------------------------- application inputs

\* Notification names the application uses.
Names == {"X", "Y"}

\* Mediator objects of the application (identity = the number).
Mediators == 1..3

\* Mediator.getMediatorName(): mediators 1 and 2 share a name.
getMediatorName(m) == IF m \in {1, 2} THEN "A" ELSE "B"

\* The interest list each mediator object is constructed with.
InitialInterests(m) ==
    CASE m = 1 -> <<"X", "Y">>
      [] m = 2 -> <<"Y">>
      [] OTHER -> <<>>

MediatorNames == {getMediatorName(m) : m \in Mediators}

\* Proxy objects of the application; proxies 1 and 2 share a name.
Proxies == 1..3
getProxyName(p) == IF p \in {1, 2} THEN "P" ELSE "Q"
ProxyNames == {getProxyName(p) : p \in Proxies}

\* Command classes of the application.
Commands == {"ControllerTestCommand", "ControllerTestCommand2"}

\* The value of an absent map entry / an undefined reference.
Undefined == 0

\* Observers the application constructs itself, new Observer(cb, ctx):
\* two share a context and differ in callback, a third has its own context.
AppObservers ==
    { [oid |-> 1, ctx |-> <<"obj", 1>>, cb |-> "cb1"],
      [oid |-> 2, ctx |-> <<"obj", 1>>, cb |-> "cb2"],
      [oid |-> 3, ctx |-> <<"obj", 2>>, cb |-> "cb1"] }

AppContexts == {o.ctx : o \in AppObservers}

\* Notification bodies: the value object of the controller tests, fresh
\* (result 0) or already processed once (result 24).
Bodies == { [input |-> 12, result |-> 0], [input |-> 12, result |-> 24] }

\* new Notification(name, body, type)
Notification(name, body, type) == [name |-> name, body |-> body, type |-> type]

Notifications == {Notification(n, b, "t") : n \in Names, b \in Bodies}

\* ------------------------------------------------------------------- state

VARIABLES
    viewInstance,        \* View.instance: a view id or Undefined
    observerMap,         \* view id -> (notification name -> observer list)
    mediatorMap,         \* view id -> (mediator name -> mediator)
    controllerInstance,  \* Controller.instance
    commandMap,          \* controller id -> (notification name -> command class)
    ctlView,             \* controller id -> the view it captured (#view)
    modelInstance,       \* Model.instance
    proxyMap,            \* model id -> (proxy name -> proxy)
    facadeInstance,      \* Facade.instance
    facadeRefs,          \* facade id -> its #model, #view, #controller
    calls,               \* call handle -> the asynchronous call's state
    mediatorInterests,   \* mediator -> the interest list it reports now
    lastOp,              \* the last synchronous operation and what it did
    script               \* the application's position in the scenario it plays

viewVars == <<viewInstance, observerMap, mediatorMap>>
ctlVars == <<controllerInstance, commandMap, ctlView>>
modelVars == <<modelInstance, proxyMap>>
facadeVars == <<facadeInstance, facadeRefs>>
vars == <<viewVars, ctlVars, modelVars, facadeVars, calls, mediatorInterests,
         lastOp, script>>

\* Mediator.listNotificationInterests(): the list the mediator reports when
\* it is asked.
listNotificationInterests(m) == mediatorInterests[m]

CallIds == 1..MaxCalls

\* ---------------------------------------------------------- map helpers

\* Map.has / Map.get / Map.set / Map.delete on a partial function.
MapHas(map, k) == k \in DOMAIN map
MapGet(map, k) == IF k \in DOMAIN map THEN map[k] ELSE Undefined
MapSet(map, k, v) == [x \in DOMAIN map \cup {k} |-> IF x = k THEN v ELSE map[x]]
MapDelete(map, k) == [x \in DOMAIN map \ {k} |-> map[x]]
EmptyMap == [x \in {} |-> Undefined]

\* Array.prototype.splice(i, 1), 1-based.
Splice(s, i) == SubSeq(s, 1, i - 1) \o SubSeq(s, i + 1, Len(s))

\* ---------------------------------------------------------------- Observer

\* Observer.compareNotifyContext
compareNotifyContext(observer, object) == object = observer.ctx

\* ------------------------------------------------------- View: observer map

\* registerObserver that skips an observer the list already holds.
registerObserverOnce(om, notificationName, observer) ==
    IF MapHas(om, notificationName)
    THEN IF \E i \in 1..Len(om[notificationName]) : om[notificationName][i] = observer
         THEN om
         ELSE [om EXCEPT ![notificationName] = Append(@, observer)]
    ELSE MapSet(om, notificationName, <<observer>>)

\* View.registerObserver on one view's observer map.
registerObserver(om, notificationName, observer) ==
    IF MapHas(om, notificationName)
    THEN [om EXCEPT ![notificationName] = Append(@, observer)]
    ELSE MapSet(om, notificationName, <<observer>>)

\* A scan from the front: the oldest observer of the context.
ScanFromStart(observers, notifyContext) ==
    LET hits == {i \in 1..Len(observers) :
                    compareNotifyContext(observers[i], notifyContext)}
    IN IF hits = {} THEN 0 ELSE CHOOSE i \in hits : \A j \in hits : i <= j

\* The index removeObserver's backward scan stops at (0: no match).
ScanFromEnd(observers, notifyContext) ==
    LET hits == {i \in 1..Len(observers) :
                    compareNotifyContext(observers[i], notifyContext)}
    IN IF hits = {} THEN 0 ELSE CHOOSE i \in hits : \A j \in hits : j <= i

\* A removeObserver that keeps the key of a list it has emptied.
removeObserverKeepsKey(om, notificationName, notifyContext) ==
    IF ~MapHas(om, notificationName) THEN om
    ELSE LET observers == om[notificationName]
             i == ScanFromEnd(observers, notifyContext)
         IN [om EXCEPT ![notificationName] =
                IF i = 0 THEN observers ELSE Splice(observers, i)]

\* View.removeObserver on one view's observer map.
removeObserver(om, notificationName, notifyContext) ==
    IF ~MapHas(om, notificationName) THEN om
    ELSE LET observers == om[notificationName]
             i == ScanFromEnd(observers, notifyContext)
             left == IF i = 0 THEN observers ELSE Splice(observers, i)
         IN IF Len(left) = 0
            THEN MapDelete(om, notificationName)
            ELSE [om EXCEPT ![notificationName] = left]

\* Number of observer entries of an observer map, over all names.
RECURSIVE SumLen(_, _)
SumLen(om, ks) ==
    IF ks = {} THEN 0
    ELSE LET k == CHOOSE x \in ks : TRUE
         IN Len(om[k]) + SumLen(om, ks \ {k})
Entries(om) == SumLen(om, DOMAIN om)


\* Observer ids in use anywhere: the application's own observers, every
\* entry of every observer map, and every observer a call still refers to.
RECURSIVE SeqRange(_)
SeqRange(s) == IF s = <<>> THEN {} ELSE {Head(s)} \cup SeqRange(Tail(s))

UsedOids(oms, cs) ==
    {o.oid : o \in AppObservers}
    \cup UNION {UNION {{o.oid : o \in SeqRange(oms[v][n])} : n \in DOMAIN oms[v]}
                : v \in DOMAIN oms}
    \cup UNION {{e.obs.oid : e \in SeqRange(cs[d].log)}
                \cup {o.oid : o \in SeqRange(cs[d].list0)} : d \in DOMAIN cs}

\* new Observer(notifyMethod, notifyContext): a new object, told apart from
\* every observer still referred to (an id no live observer has).
Observer(notifyMethod, notifyContext, oms, cs) ==
    LET used == UsedOids(oms, cs)
        oid == CHOOSE n \in 1..(Cardinality(used) + 1) : n \notin used
    IN [oid |-> oid, ctx |-> notifyContext, cb |-> notifyMethod]

\* ------------------------------------------------------ View: mediator map

\* A registration that constructs an Observer of its own for every interest.
RECURSIVE RegisterEachOwn(_, _, _)
RegisterEachOwn(om, interests, observer) ==
    IF interests = <<>> THEN om
    ELSE RegisterEachOwn(registerObserver(om, Head(interests), observer),
                         Tail(interests), [observer EXCEPT !.oid = @ + 1])

\* interests.forEach(interest => this.registerObserver(interest, observer))
RECURSIVE RegisterEach(_, _, _)
RegisterEach(om, interests, observer) ==
    IF interests = <<>> THEN om
    ELSE RegisterEach(registerObserver(om, Head(interests), observer),
                      Tail(interests), observer)

\* A removal that strips the observer of the first interest only.
RemoveEachFirstOnly(om, interests, notifyContext) ==
    IF interests = <<>> THEN om
    ELSE removeObserver(om, Head(interests), notifyContext)

\* interests.forEach(interest => this.removeObserver(interest, mediator))
RECURSIVE RemoveEach(_, _, _)
RemoveEach(om, interests, notifyContext) ==
    IF interests = <<>> THEN om
    ELSE RemoveEach(removeObserver(om, Head(interests), notifyContext),
                    Tail(interests), notifyContext)

\* A retrieveMediator that falls back to some registered mediator when the
\* name is unknown.
retrieveMediatorAny(mm, mediatorName) ==
    IF MapHas(mm, mediatorName) THEN mm[mediatorName]
    ELSE IF DOMAIN mm = {} THEN Undefined
    ELSE mm[CHOOSE x \in DOMAIN mm : TRUE]

\* View.retrieveMediator / View.hasMediator
retrieveMediator(mm, mediatorName) == MapGet(mm, mediatorName)
hasMediator(mm, mediatorName) == MapHas(mm, mediatorName)

\* A registerMediator that overwrites a registered name.
registerMediatorAcceptsAlways(mm, mediator) == TRUE

\* View.registerMediator accepts the mediator (its name is not taken).
registerMediatorAccepts(mm, mediator) == ~MapHas(mm, getMediatorName(mediator))

\* View.registerMediator: the mediator map afterwards.
registerMediatorMap(mm, mediator) ==
    IF registerMediatorAccepts(mm, mediator)
    THEN MapSet(mm, getMediatorName(mediator), mediator)
    ELSE mm

\* View.registerMediator: the observer map afterwards; observer is the one
\* Observer object the call constructs.
registerMediatorObservers(mm, om, mediator, observer) ==
    LET interests == listNotificationInterests(mediator)
    IN IF registerMediatorAccepts(mm, mediator) /\ Len(interests) > 0
       THEN RegisterEach(om, interests, observer)
       ELSE om

\* The names under which om lists an observer whose context is ctx.
ListedUnder(om, ctx) ==
    {n \in DOMAIN om : \E i \in 1..Len(om[n]) : compareNotifyContext(om[n][i], ctx)}

\* A hook invoked on obj, with what the hook finds when it runs: what the
\* registry retrieves for obj's name, and the names under which an observer
\* of obj is listed.
Hook(hook, obj, holds, listed) ==
    [hook |-> hook, obj |-> obj, holds |-> holds, listed |-> listed]

\* A registerMediator that calls onRegister before it stores anything.
registerMediatorHooksFirst(mm, om, mediator, observer) ==
    IF registerMediatorAccepts(mm, mediator)
    THEN <<Hook("onRegister", mediator, retrieveMediator(mm, getMediatorName(mediator)),
                ListedUnder(om, <<"med", mediator>>))>>
    ELSE <<>>

\* View.registerMediator: the hooks it invokes; onRegister is the last
\* statement, after mediatorMap.set and the registerObserver calls.
registerMediatorHooks(mm, om, mediator, observer) ==
    IF registerMediatorAccepts(mm, mediator)
    THEN <<Hook("onRegister", mediator,
                retrieveMediator(registerMediatorMap(mm, mediator),
                                 getMediatorName(mediator)),
                ListedUnder(registerMediatorObservers(mm, om, mediator, observer),
                            <<"med", mediator>>))>>
    ELSE <<>>

\* A removeMediator that strips every observer of the mediator, under
\* whatever name it is listed.
removeMediatorObserversEverywhere(mm, om, mediatorName) ==
    LET mediator == MapGet(mm, mediatorName)
        kept(n) == SelectSeq(om[n], LAMBDA x : ~compareNotifyContext(x, <<"med", mediator>>))
    IN IF mediator = Undefined THEN om
       ELSE [n \in {k \in DOMAIN om : kept(k) # <<>>} |-> kept(n)]

\* View.removeMediator: the observer map afterwards; the interests are
\* those the mediator reports now.
removeMediatorObservers(mm, om, mediatorName) ==
    LET mediator == MapGet(mm, mediatorName)
    IN IF mediator = Undefined THEN om
       ELSE RemoveEach(om, listNotificationInterests(mediator), <<"med", mediator>>)

\* A removeMediator that leaves the mediator in the map.
removeMediatorMapKept(mm, mediatorName) == mm

\* View.removeMediator: the mediator map afterwards.
removeMediatorMap(mm, mediatorName) ==
    IF MapGet(mm, mediatorName) = Undefined THEN mm ELSE MapDelete(mm, mediatorName)

\* View.removeMediator: the hooks it invokes; onRemove follows the
\* removeObserver calls and mediatorMap.delete.
removeMediatorHooks(mm, om, mediatorName) ==
    LET mediator == MapGet(mm, mediatorName)
    IN IF mediator = Undefined THEN <<>>
       ELSE <<Hook("onRemove", mediator,
                   retrieveMediator(removeMediatorMap(mm, mediatorName), mediatorName),
                   ListedUnder(removeMediatorObservers(mm, om, mediatorName),
                               <<"med", mediator>>))>>

\* -------------------------------------------------------------- Controller

NoCommand == "none"

\* Controller.hasCommand
hasCommand(cm, notificationName) == MapHas(cm, notificationName)

\* A registerCommand that registers an observer on every call.
registerCommandObserversAlways(cm, om, notificationName, observer) ==
    registerObserver(om, notificationName, observer)

\* Controller.registerCommand: the view's observer map afterwards; observer
\* is the Observer the call constructs when the name is new.
registerCommandObservers(cm, om, notificationName, observer) ==
    IF ~MapHas(cm, notificationName)
    THEN registerObserver(om, notificationName, observer)
    ELSE om

\* A registerCommand that keeps the class already registered for the name.
registerCommandMapFirstWins(cm, notificationName, commandClass) ==
    IF MapHas(cm, notificationName) THEN cm
    ELSE MapSet(cm, notificationName, commandClass)

\* Controller.registerCommand: the command map afterwards.
registerCommandMap(cm, notificationName, commandClass) ==
    MapSet(cm, notificationName, commandClass)

\* A removeCommand that leaves the controller's observer in the view.
removeCommandObserversStale(cm, om, notificationName, controller) == om

\* A removeCommand that drops the whole observer list of the name.
removeCommandObserversWholeList(cm, om, notificationName, controller) ==
    IF hasCommand(cm, notificationName) THEN MapDelete(om, notificationName) ELSE om

\* Controller.removeCommand: the view's observer map afterwards.
removeCommandObservers(cm, om, notificationName, controller) ==
    IF hasCommand(cm, notificationName)
    THEN removeObserver(om, notificationName, <<"ctl", controller>>)
    ELSE om

\* A removeCommand that leaves the mapping in place.
removeCommandMapKept(cm, notificationName) == cm

\* Controller.removeCommand: the command map afterwards.
removeCommandMap(cm, notificationName) ==
    IF hasCommand(cm, notificationName) THEN MapDelete(cm, notificationName) ELSE cm

\* The command class Controller.executeCommand looks up for a notification.
commandClassFor(cm, notification) ==
    IF MapHas(cm, notification.name) THEN cm[notification.name] ELSE NoCommand

\* ICommand.execute of the two command classes of the controller tests, on
\* the notification's body.
execute(commandClass, notification) ==
    CASE commandClass = "ControllerTestCommand" ->
            [notification EXCEPT !.body.result = 2 * notification.body.input]
      [] commandClass = "ControllerTestCommand2" ->
            [notification EXCEPT
                !.body.result = notification.body.result + 2 * notification.body.input]
      [] OTHER -> notification

\* ------------------------------------------------------------------- Model

\* A registerProxy that keeps the proxy already holding the name.
registerProxyFirstWins(pm, proxy) ==
    IF MapHas(pm, getProxyName(proxy)) THEN pm ELSE MapSet(pm, getProxyName(proxy), proxy)

\* Model.registerProxy: the proxy map afterwards.
registerProxy(pm, proxy) == MapSet(pm, getProxyName(proxy), proxy)

\* Model.retrieveProxy / Model.hasProxy
retrieveProxy(pm, proxyName) == MapGet(pm, proxyName)
hasProxy(pm, proxyName) == MapHas(pm, proxyName)

\* A registerProxy that calls onRegister before it stores the proxy.
registerProxyHooksFirst(pm, proxy) ==
    <<Hook("onRegister", proxy, retrieveProxy(pm, getProxyName(proxy)), {})>>

\* Model.registerProxy: the hooks it invokes; onRegister follows
\* proxyMap.set.
registerProxyHooks(pm, proxy) ==
    <<Hook("onRegister", proxy,
           retrieveProxy(registerProxy(pm, proxy), getProxyName(proxy)), {})>>

\* A removeProxy that leaves the proxy in the map.
removeProxyKept(pm, proxyName) == pm

\* Model.removeProxy: the proxy map afterwards.
removeProxy(pm, proxyName) ==
    IF MapGet(pm, proxyName) # Undefined THEN MapDelete(pm, proxyName) ELSE pm

\* Model.removeProxy: the hooks it invokes; onRemove follows
\* proxyMap.delete.
removeProxyHooks(pm, proxyName) ==
    LET proxy == MapGet(pm, proxyName)
    IN IF proxy # Undefined
       THEN <<Hook("onRemove", proxy,
                   retrieveProxy(removeProxy(pm, proxyName), proxyName), {})>>
       ELSE <<>>


\* ------------------------------------------------ asynchronous calls

\* A call handle not in use.
NoNote == Notification("", [input |-> 0, result |-> 0], "")
FreeCall ==
    [st |-> "free", kind |-> "none", target |-> Undefined, note |-> NoNote,
     sent |-> NoNote, idx |-> 0, detached |-> FALSE, mutated |-> FALSE,
     facade |-> FALSE, sequential |-> FALSE, list0 |-> <<>>, log |-> <<>>]

\* One event of a call's history: a handler started, returned or threw.
Event(ev, observer, notification, commandClass) ==
    [ev |-> ev, obs |-> observer, note |-> notification, cmd |-> commandClass]

\* The observer list of a name, empty when the name is no key.
ListOf(om, notificationName) ==
    IF MapHas(om, notificationName) THEN om[notificationName] ELSE <<>>

\* A dispatch that, after an await, goes on with the array of the name the
\* latest call in flight was given (one array variable shared by all calls).
IteratedArrayShared(call, oms) ==
    LET latest == CHOOSE d \in CallIds :
                      /\ calls[d].st = "run"
                      /\ \A e \in CallIds : calls[e].st = "run" => e <= d
    IN ListOf(oms[call.target], calls[latest].note.name)

\* The array a running View.notifyObservers iterates: the live array of the
\* name, or the emptied array it still holds once the key has been deleted.
IteratedArray(call, oms) ==
    IF call.detached THEN <<>> ELSE ListOf(oms[call.target], call.note.name)

\* The observer standing for a direct Controller.executeCommand call.
DirectExecute(controller) ==
    [oid |-> Undefined, ctx |-> <<"ctl", controller>>, cb |-> "executeCommand"]

\* What a handler that runs to completion does to the notification it was
\* given: executeCommand runs the command class it found; a callback of the
\* application's own observers leaves its mark in the shared body; a
\* mediator's handleNotification (the base class's) does nothing.
handlerEffect(observer, commandClass, notification) ==
    CASE observer.cb = "executeCommand" -> execute(commandClass, notification)
      [] observer.cb \in {"cb1", "cb2"} ->
            [notification EXCEPT !.body.result = observer.oid]
      [] OTHER -> notification

\* Observer.notifyObserver: the notify method is called on the context with
\* the notification. Controller.executeCommand looks the command class up,
\* instantiates it and starts its execute; any other notify method is an
\* application handler. how: the handler suspends, returns or throws.
\* With no command class executeCommand has nothing to run and returns.
notifyObserver(call, observer, cms, how) ==
    LET cmd == IF observer.cb = "executeCommand"
               THEN commandClassFor(cms[observer.ctx[2]], call.note)
               ELSE NoCommand
        h == IF observer.cb = "executeCommand" /\ cmd = NoCommand THEN "ok" ELSE how
        after == handlerEffect(observer, cmd, call.note)
        started == Append(call.log, Event("start", observer, call.note, cmd))
    IN CASE h = "suspend" -> [call EXCEPT !.log = started]
         [] h = "ok" -> [call EXCEPT !.note = after,
                            !.log = Append(started, Event("end", observer, after, cmd))]
         [] OTHER -> [call EXCEPT
                            !.log = Append(started, Event("fail", observer, call.note, cmd))]

\* A suspended handler of the call returns (ok) or throws (fail).
settle(call, outcome) ==
    LET last == call.log[Len(call.log)]
        after == handlerEffect(last.obs, last.cmd, call.note)
    IN IF outcome = "ok"
       THEN [call EXCEPT !.note = after,
                !.log = Append(@, Event("end", last.obs, after, last.cmd))]
       ELSE [call EXCEPT !.log = Append(@, Event("fail", last.obs, call.note, last.cmd))]

\* The head of the for-of loop of View.notifyObservers: the iterator reads
\* the array as it is now; past its end the call completes, otherwise the
\* next observer is notified.
loopHead(call, observers, cms, how) ==
    IF call.idx >= Len(observers)
    THEN [call EXCEPT !.st = "done"]
    ELSE notifyObserver(call, observers[call.idx + 1], cms, how)

\* A notifyObservers that iterates the absent list of an unknown name and
\* throws.
notifyObserversThrowsOnMissing(view, om, notification, cms, how) ==
    LET call == [FreeCall EXCEPT !.st = "run", !.kind = "view", !.target = view,
                    !.note = notification, !.sent = notification,
                    !.list0 = ListOf(om, notification.name)]
    IN IF ~MapHas(om, notification.name)
       THEN [call EXCEPT !.st = "failed"]
       ELSE loopHead(call, om[notification.name], cms, how)

\* View.notifyObservers from the call to its first await (or its return).
notifyObservers(view, om, notification, cms, how) ==
    LET call == [FreeCall EXCEPT !.st = "run", !.kind = "view", !.target = view,
                    !.note = notification, !.sent = notification,
                    !.list0 = ListOf(om, notification.name)]
    IN IF ~MapHas(om, notification.name)
       THEN [call EXCEPT !.st = "done"]
       ELSE loopHead(call, om[notification.name], cms, how)

\* Controller.executeCommand called directly, to its await (or its return).
executeCommand(controller, cms, notification, how) ==
    LET call == [FreeCall EXCEPT !.st = "run", !.kind = "exec", !.target = controller,
                    !.note = notification, !.sent = notification]
    IN IF commandClassFor(cms[controller], notification) = NoCommand
       THEN [call EXCEPT !.st = "done"]
       ELSE notifyObserver(call, DirectExecute(controller), cms, how)

\* A handler of the call has been started and has not settled.
handlerPending(call) ==
    /\ call.st = "run"
    /\ Len(call.log) > 0
    /\ call.log[Len(call.log)].ev = "start"

\* A call that does not wait for the handler it started.
awaitOverUnawaited(call) ==
    /\ call.st = "run"
    /\ Len(call.log) > 0

\* The await of the call is over: the handler it waits for has settled.
awaitOver(call) ==
    /\ call.st = "run"
    /\ Len(call.log) > 0
    /\ call.log[Len(call.log)].ev \in {"end", "fail"}

\* A call that swallows what its handler threw.
awaitThrowsCaught(call) == FALSE

\* The awaited handler threw: the await rethrows in the async function.
awaitThrows(call) == call.log[Len(call.log)].ev = "fail"

\* A call that gives up after its first await and reports completion.
resumeGivesUp(call, oms, cms, how) == [call EXCEPT !.st = "done"]

\* The call after its await: a throw rejects its promise; otherwise
\* executeCommand returns and notifyObservers moves to the next observer.
resume(call, oms, cms, how) ==
    IF awaitThrows(call) THEN [call EXCEPT !.st = "failed"]
    ELSE IF call.kind = "exec" THEN [call EXCEPT !.st = "done"]
    ELSE loopHead([call EXCEPT !.idx = @ + 1],
                  IteratedArray([call EXCEPT !.idx = @ + 1], oms), cms, how)

\* Facade.notifyObservers: the view's notifyObservers is called and its
\* promise dropped; the facade's own promise is fulfilled on return.
facadeNotifyObservers(view, om, notification, cms, how) ==
    [notifyObservers(view, om, notification, cms, how) EXCEPT !.facade = TRUE]

\* The state of the promise a caller holds for the call: the call's own
\* promise, or for a call through the facade the facade's promise.
promiseState(call) ==
    IF call.facade THEN "fulfilled"
    ELSE CASE call.st = "done" -> "fulfilled"
           [] call.st = "failed" -> "rejected"
           [] OTHER -> "pending"

\* What a change of one view's observer map does to the running calls that
\* iterate one of its arrays: the array changes under the iterator, and a
\* key deleted (its array emptied) leaves the call with the empty array.
retarget(cs, view, omOld, omNew) ==
    [d \in DOMAIN cs |->
        LET call == cs[d]
        IN IF /\ call.st = "run" /\ call.kind = "view" /\ call.target = view
              /\ ~call.detached
              /\ ListOf(omOld, call.note.name) # ListOf(omNew, call.note.name)
           THEN [call EXCEPT !.mutated = TRUE,
                             !.detached = ~MapHas(omNew, call.note.name)]
           ELSE call]

\* ----------------------------------------------------------------- actions

\* The record of the last step: a synchronous operation with the instance
\* it was called on, its arguments (a name, an object), its return value
\* and the hooks it invoked, or the return of a call with its final state.
Op(op, on, name, obj, ret, hooks) ==
    [op |-> op, on |-> on, name |-> name, obj |-> obj, ret |-> ret, hooks |-> hooks,
     call |-> FreeCall]

\* The positions of the scenario the application plays. The controller
\* scenario: nothing registered yet for the name; registered for the first time; removed; registered again after
\* a removal; the registered class replaced by another one.
ScriptStart == "start"
ScriptRegistered == "registered"
ScriptRemoved == "removed"
ScriptReregistered == "reregistered"
ScriptReplaced == "replaced"

\* The state after Facade.getInstance(): the facade constructs the model,
\* the controller (which takes View.getInstance()) and the view.
FacadeObtained ==
    /\ viewInstance = 1
    /\ observerMap = (1 :> EmptyMap)
    /\ mediatorMap = (1 :> EmptyMap)
    /\ controllerInstance = 1
    /\ commandMap = (1 :> EmptyMap)
    /\ ctlView = (1 :> 1)
    /\ modelInstance = 1
    /\ proxyMap = (1 :> EmptyMap)
    /\ facadeInstance = 1
    /\ facadeRefs = (1 :> [model |-> 1, view |-> 1, controller |-> 1])
    /\ calls = [d \in CallIds |-> FreeCall]
    /\ lastOp = Op("getInstance", Undefined, "", Undefined, Undefined, <<>>)
    /\ script = ScriptStart

\* The application has its facade and has constructed its mediators.
Init ==
    /\ FacadeObtained
    /\ mediatorInterests = [m \in Mediators |-> InitialInterests(m)]

\* The observer map of one view changes to om.
SetObserverMap(v, om) ==
    /\ observerMap' = [observerMap EXCEPT ![v] = om]
    /\ calls' = retarget(calls, v, observerMap[v], om)

\* A call proceeds to state call: while it runs the handle keeps it; once
\* its promise settles the caller takes the outcome and the handle is free.
Proceed(d, call) ==
    IF call.st = "run"
    THEN /\ calls' = [calls EXCEPT ![d] = call]
         /\ lastOp' = Op("await", Undefined, "", Undefined, Undefined, <<>>)
    ELSE /\ calls' = [calls EXCEPT ![d] = FreeCall]
         /\ lastOp' = [Op("return", Undefined, "", Undefined, Undefined, <<>>) EXCEPT !.call = call]

\* view.registerObserver(notificationName, observer), observer one of the
\* application's own.
RegisterObserver(v, notificationName, observer) ==
    /\ Entries(observerMap[v]) < MaxObs
    /\ SetObserverMap(v, registerObserver(observerMap[v], notificationName, observer))
    /\ lastOp' = Op("registerObserver", v, notificationName, observer.oid, Undefined, <<>>)
    /\ UNCHANGED <<viewInstance, mediatorMap, ctlVars, modelVars, facadeVars, mediatorInterests>>

\* view.removeObserver(notificationName, notifyContext)
RemoveObserver(v, notificationName, notifyContext) ==
    /\ SetObserverMap(v, removeObserver(observerMap[v], notificationName, notifyContext))
    /\ lastOp' = Op("removeObserver", v, notificationName, notifyContext[2], Undefined, <<>>)
    /\ UNCHANGED <<viewInstance, mediatorMap, ctlVars, modelVars, facadeVars, mediatorInterests>>

Hows == {"suspend", "ok", "fail"}

\* view.notifyObservers(notification)
NotifyObservers(d, v, notification, how) ==
    /\ calls[d].st = "free"
    /\ Proceed(d, notifyObservers(v, observerMap[v], notification, commandMap, how))
    /\ UNCHANGED <<viewVars, ctlVars, modelVars, facadeVars, mediatorInterests>>

\* A suspended handler settles.
Settle(d, outcome) ==
    /\ handlerPending(calls[d])
    /\ Proceed(d, settle(calls[d], outcome))
    /\ UNCHANGED <<viewVars, ctlVars, modelVars, facadeVars, mediatorInterests>>

\* The call continues after its await.
Resume(d, how) ==
    /\ awaitOver(calls[d])
    /\ Proceed(d, resume(calls[d], observerMap, commandMap, how))
    /\ UNCHANGED <<viewVars, ctlVars, modelVars, facadeVars, mediatorInterests>>

\* view.registerMediator(mediator)
RegisterMediator(v, mediator) ==
    LET observer == Observer("handleNotification", <<"med", mediator>>, observerMap, calls)
    IN /\ registerMediatorAccepts(mediatorMap[v], mediator) =>
            Entries(observerMap[v]) + Len(listNotificationInterests(mediator)) <= MaxObs
       /\ SetObserverMap(v, registerMediatorObservers(mediatorMap[v], observerMap[v],
                                                     mediator, observer))
       /\ mediatorMap' = [mediatorMap EXCEPT ![v] = registerMediatorMap(@, mediator)]
       /\ lastOp' = Op("registerMediator", v, getMediatorName(mediator), mediator,
                       Undefined, registerMediatorHooks(mediatorMap[v], observerMap[v],
                                                        mediator, observer))
       /\ UNCHANGED <<viewInstance, ctlVars, modelVars, facadeVars, mediatorInterests>>

\* view.removeMediator(mediatorName)
RemoveMediator(v, mediatorName) ==
    /\ SetObserverMap(v, removeMediatorObservers(mediatorMap[v], observerMap[v],
                                                 mediatorName))
    /\ mediatorMap' = [mediatorMap EXCEPT ![v] = removeMediatorMap(@, mediatorName)]
    /\ lastOp' = Op("removeMediator", v, mediatorName, Undefined,
                    retrieveMediator(mediatorMap[v], mediatorName),
                    removeMediatorHooks(mediatorMap[v], observerMap[v], mediatorName))
    /\ UNCHANGED <<viewInstance, ctlVars, modelVars, facadeVars, mediatorInterests>>

\* controller.registerCommand(notificationName, commandClass)
RegisterCommand(c, notificationName, commandClass) ==
    LET v == ctlView[c]
        observer == Observer("executeCommand", <<"ctl", c>>, observerMap, calls)
    IN /\ ~hasCommand(commandMap[c], notificationName) => Entries(observerMap[v]) < MaxObs
       /\ SetObserverMap(v, registerCommandObservers(commandMap[c], observerMap[v],
                                                    notificationName, observer))
       /\ commandMap' = [commandMap EXCEPT
                            ![c] = registerCommandMap(@, notificationName, commandClass)]
       /\ lastOp' = Op("registerCommand", c, notificationName, commandClass, Undefined, <<>>)
       /\ UNCHANGED <<viewInstance, mediatorMap, controllerInstance, ctlView,
                      modelVars, facadeVars, mediatorInterests>>

\* controller.removeCommand(notificationName)
RemoveCommand(c, notificationName) ==
    LET v == ctlView[c]
    IN /\ SetObserverMap(v, removeCommandObservers(commandMap[c], observerMap[v],
                                                  notificationName, c))
       /\ commandMap' = [commandMap EXCEPT ![c] = removeCommandMap(@, notificationName)]
       /\ lastOp' = Op("removeCommand", c, notificationName, Undefined, Undefined, <<>>)
       /\ UNCHANGED <<viewInstance, mediatorMap, controllerInstance, ctlView,
                      modelVars, facadeVars, mediatorInterests>>

\* controller.executeCommand(notification), called directly
ExecuteCommand(d, c, notification, how) ==
    /\ calls[d].st = "free"
    /\ Proceed(d, executeCommand(c, commandMap, notification, how))
    /\ UNCHANGED <<viewVars, ctlVars, modelVars, facadeVars, mediatorInterests>>

\* facade.notifyObservers(notification)
FacadeNotifyObservers(d, f, notification, how) ==
    /\ calls[d].st = "free"
    /\ Proceed(d, facadeNotifyObservers(facadeRefs[f].view, observerMap[facadeRefs[f].view],
                                        notification, commandMap, how))
    /\ UNCHANGED <<viewVars, ctlVars, modelVars, facadeVars, mediatorInterests>>

\* facade.sendNotification(name, body, type)
FacadeSendNotification(d, f, name, body, type, how) ==
    FacadeNotifyObservers(d, f, Notification(name, body, type), how)

\* model.registerProxy(proxy)
RegisterProxy(mo, proxy) ==
    /\ proxyMap' = [proxyMap EXCEPT ![mo] = registerProxy(@, proxy)]
    /\ lastOp' = Op("registerProxy", mo, getProxyName(proxy), proxy, Undefined,
                    registerProxyHooks(proxyMap[mo], proxy))
    /\ UNCHANGED <<viewVars, ctlVars, modelInstance, facadeVars, calls, mediatorInterests>>

\* model.removeProxy(proxyName)
RemoveProxy(mo, proxyName) ==
    /\ proxyMap' = [proxyMap EXCEPT ![mo] = removeProxy(@, proxyName)]
    /\ lastOp' = Op("removeProxy", mo, proxyName, Undefined,
                    retrieveProxy(proxyMap[mo], proxyName),
                    removeProxyHooks(proxyMap[mo], proxyName))
    /\ UNCHANGED <<viewVars, ctlVars, modelInstance, facadeVars, calls, mediatorInterests>>

\* Notifications sent in the View's own scenarios: one body.
ViewNotes == {Notification(n, [input |-> 12, result |-> 0], "t") : n \in Names}

\* No notifyObservers call on the view is in flight.
Quiescent(v) ==
    \A d \in CallIds : ~(calls[d].st = "run" /\ calls[d].kind = "view" /\ calls[d].target = v)

\* The observer lists change only between dispatches; the application
\* sends one notification at a time.
NextView ==
    \/ \E n \in Names, o \in AppObservers :
          Quiescent(viewInstance) /\ RegisterObserver(viewInstance, n, o) /\ UNCHANGED script
    \/ \E n \in Names, c \in AppContexts :
          Quiescent(viewInstance) /\ RemoveObserver(viewInstance, n, c) /\ UNCHANGED script
    \/ \E d \in {1}, n \in ViewNotes, h \in Hows :
          NotifyObservers(d, viewInstance, n, h) /\ UNCHANGED script
    \/ \E d \in {1}, o \in {"ok", "fail"} : Settle(d, o) /\ UNCHANGED script
    \/ \E d \in {1}, h \in Hows : Resume(d, h) /\ UNCHANGED script

\* The View alone: observers registered and removed by hand, notifications
\* sent, handlers that suspend, return and throw.
SpecView == Init /\ [][NextView]_vars


\* The same under the scheduling of the event loop: the continuation of an
\* await whose promise has settled is run, and (the hypothesis of the
\* termination claim) a handler that was started settles.
SpecViewFair ==
    /\ SpecView
    /\ WF_vars(\E d \in {1}, o \in {"ok", "fail"} : Settle(d, o) /\ UNCHANGED script)
    /\ WF_vars(\E d \in {1}, h \in Hows : Resume(d, h) /\ UNCHANGED script)

\* The registries alone: mediators, commands and proxies registered,
\* replaced and removed in any order.
NextRegistry ==
    \/ \E m \in Mediators : RegisterMediator(viewInstance, m) /\ UNCHANGED script
    \/ \E n \in MediatorNames : RemoveMediator(viewInstance, n) /\ UNCHANGED script
    \/ \E n \in Names, k \in Commands : RegisterCommand(controllerInstance, n, k) /\ UNCHANGED script
    \/ \E n \in Names : RemoveCommand(controllerInstance, n) /\ UNCHANGED script
    \/ \E p \in Proxies : RegisterProxy(modelInstance, p) /\ UNCHANGED script
    \/ \E n \in ProxyNames : RemoveProxy(modelInstance, n) /\ UNCHANGED script

SpecRegistry == Init /\ [][NextRegistry]_vars

\* No call is in flight.
Idle == \A d \in CallIds : calls[d].st # "run"

\* The application: mediators and commands come and go between calls;
\* notifications are sent through the view and through the facade and
\* commands are executed directly, with handlers and commands that
\* suspend, return and throw. The application waits for one call to return
\* before it makes the next (call handle 1 only).
Next ==
    \/ \E m \in Mediators : Idle /\ RegisterMediator(viewInstance, m) /\ UNCHANGED script
    \/ \E n \in MediatorNames : Idle /\ RemoveMediator(viewInstance, n) /\ UNCHANGED script
    \/ \E n \in Names, k \in Commands : Idle /\ RegisterCommand(controllerInstance, n, k) /\ UNCHANGED script
    \/ \E n \in Names : Idle /\ RemoveCommand(controllerInstance, n) /\ UNCHANGED script
    \/ \E d \in {1}, n \in Notifications, h \in Hows :
          NotifyObservers(d, viewInstance, n, h) /\ UNCHANGED script
    \/ \E d \in {1}, n \in Notifications, h \in Hows :
          FacadeNotifyObservers(d, facadeInstance, n, h) /\ UNCHANGED script
    \/ \E d \in {1}, n \in Names, b \in Bodies, h \in Hows :
          FacadeSendNotification(d, facadeInstance, n, b, "t", h) /\ UNCHANGED script
    \/ \E d \in {1}, n \in Notifications, h \in Hows :
          ExecuteCommand(d, controllerInstance, n, h) /\ UNCHANGED script
    \/ \E d \in {1}, o \in {"ok", "fail"} : Settle(d, o) /\ UNCHANGED script
    \/ \E d \in {1}, h \in Hows : Resume(d, h) /\ UNCHANGED script

Spec == Init /\ [][Next]_vars

\* ------------------------------------------------- lookups and all maps

\* view.retrieveMediator(mediatorName)
RetrieveMediator(v, mediatorName) ==
    /\ lastOp' = Op("retrieveMediator", v, mediatorName, Undefined,
                    retrieveMediator(mediatorMap[v], mediatorName), <<>>)
    /\ UNCHANGED <<viewVars, ctlVars, modelVars, facadeVars, calls, mediatorInterests>>

\* model.retrieveProxy(proxyName)
RetrieveProxy(mo, proxyName) ==
    /\ lastOp' = Op("retrieveProxy", mo, proxyName, Undefined,
                    retrieveProxy(proxyMap[mo], proxyName), <<>>)
    /\ UNCHANGED <<viewVars, ctlVars, modelVars, facadeVars, calls, mediatorInterests>>

\* Every operation on the maps of the three registries, in any order:
\* observers registered and removed by hand (two observers of different
\* contexts) next to the observers of mediators and of commands of one
\* class, one proxy,
\* and the lookups and removals by name, registered or not.
NextMaps ==
    \/ \E n \in Names, o \in {x \in AppObservers : x.cb = "cb1"} :
          RegisterObserver(viewInstance, n, o) /\ UNCHANGED script
    \/ \E n \in Names, c \in AppContexts :
          RemoveObserver(viewInstance, n, c) /\ UNCHANGED script
    \/ \E m \in Mediators : RegisterMediator(viewInstance, m) /\ UNCHANGED script
    \/ \E n \in MediatorNames : RemoveMediator(viewInstance, n) /\ UNCHANGED script
    \/ \E n \in MediatorNames : RetrieveMediator(viewInstance, n) /\ UNCHANGED script
    \/ \E n \in Names, k \in {"ControllerTestCommand"} :
          RegisterCommand(controllerInstance, n, k) /\ UNCHANGED script
    \/ \E n \in Names : RemoveCommand(controllerInstance, n) /\ UNCHANGED script
    \/ \E p \in {3} : RegisterProxy(modelInstance, p) /\ UNCHANGED script
    \/ \E n \in ProxyNames : RemoveProxy(modelInstance, n) /\ UNCHANGED script
    \/ \E n \in ProxyNames : RetrieveProxy(modelInstance, n) /\ UNCHANGED script

SpecMaps == Init /\ [][NextMaps]_vars

\* ----------------------------------------------- singletons: life cycle

\* Most instances of one class constructed over time.
MaxInst == 2

\* What a constructor called while the singleton exists does: it throws.
Throws == -1

Classes == {"View", "Model", "Controller", "Facade"}

\* The four singleton slots and the instances constructed so far, as one
\* value the constructors and dispose methods transform.
World ==
    [vi |-> viewInstance, om |-> observerMap, mm |-> mediatorMap,
     ci |-> controllerInstance, cm |-> commandMap, cv |-> ctlView,
     mi |-> modelInstance, pm |-> proxyMap,
     fi |-> facadeInstance, fr |-> facadeRefs]

\* The static instance field of a class.
SlotOf(w, cls) ==
    CASE cls = "View" -> w.vi
      [] cls = "Model" -> w.mi
      [] cls = "Controller" -> w.ci
      [] OTHER -> w.fi

\* The instances of a class constructed so far.
InstancesOf(w, cls) ==
    CASE cls = "View" -> DOMAIN w.om
      [] cls = "Model" -> DOMAIN w.pm
      [] cls = "Controller" -> DOMAIN w.cm
      [] OTHER -> DOMAIN w.fr

\* The identity of the next object of a class.
NewId(instances) == Cardinality(instances) + 1

\* A constructor that never finds the singleton constructed.
singletonConstructedNever(instance) == FALSE

\* if (X.instance) throw Error(X.SINGLETON_MSG)
singletonConstructed(instance) == instance # Undefined

\* new View(), the singleton slot empty.
ViewConstructor(w) ==
    LET this == NewId(DOMAIN w.om)
    IN [w EXCEPT !.vi = this,
                 !.mm = MapSet(@, this, EmptyMap),
                 !.om = MapSet(@, this, EmptyMap)]

\* View.getInstance()
ViewGetInstance(w) ==
    IF ~singletonConstructed(w.vi) THEN ViewConstructor(w) ELSE w

\* new Model(), the singleton slot empty.
ModelConstructor(w) ==
    LET this == NewId(DOMAIN w.pm)
    IN [w EXCEPT !.mi = this, !.pm = MapSet(@, this, EmptyMap)]

\* Model.getInstance()
ModelGetInstance(w) ==
    IF ~singletonConstructed(w.mi) THEN ModelConstructor(w) ELSE w

\* new Controller(), the singleton slot empty: initializeController takes
\* View.getInstance() as the controller's view.
ControllerConstructor(w) ==
    LET this == NewId(DOMAIN w.cm)
        w1 == [w EXCEPT !.ci = this, !.cm = MapSet(@, this, EmptyMap)]
        w2 == ViewGetInstance(w1)
    IN [w2 EXCEPT !.cv = MapSet(@, this, w2.vi)]

\* Controller.getInstance()
ControllerGetInstance(w) ==
    IF ~singletonConstructed(w.ci) THEN ControllerConstructor(w) ELSE w

\* new Facade(), the singleton slot empty: initializeFacade initializes the
\* model, the controller and the view, in this order.
FacadeConstructor(w) ==
    LET this == NewId(DOMAIN w.fr)
        w1 == [w EXCEPT !.fi = this]
        w2 == ModelGetInstance(w1)
        w3 == ControllerGetInstance(w2)
        w4 == ViewGetInstance(w3)
    IN [w4 EXCEPT !.fr = MapSet(@, this, [model |-> w2.mi, view |-> w4.vi,
                                          controller |-> w3.ci])]

\* Facade.getInstance()
FacadeGetInstance(w) ==
    IF ~singletonConstructed(w.fi) THEN FacadeConstructor(w) ELSE w

\* new X(), the singleton slot empty.
Constructor(w, cls) ==
    CASE cls = "View" -> ViewConstructor(w)
      [] cls = "Model" -> ModelConstructor(w)
      [] cls = "Controller" -> ControllerConstructor(w)
      [] OTHER -> FacadeConstructor(w)

\* X.getInstance()
GetInstanceOf(w, cls) ==
    CASE cls = "View" -> ViewGetInstance(w)
      [] cls = "Model" -> ModelGetInstance(w)
      [] cls = "Controller" -> ControllerGetInstance(w)
      [] OTHER -> FacadeGetInstance(w)

\* names.forEach((name) => this.removeMediator(name)) of View.dispose: the
\* mediator map, the observer map and the hooks invoked, names being the
\* keys still to visit. (The order of a Map's keys is not kept by the
\* model; the result does not depend on it but for the order of the hooks.)
RECURSIVE RemoveMediators(_, _, _, _)
RemoveMediators(mm, om, hooks, names) ==
    IF names = {} THEN [mm |-> mm, om |-> om, hooks |-> hooks]
    ELSE LET name == CHOOSE x \in names : TRUE
         IN RemoveMediators(removeMediatorMap(mm, name),
                            removeMediatorObservers(mm, om, name),
                            hooks \o removeMediatorHooks(mm, om, name),
                            names \ {name})

\* View.dispose up to the reset of the singleton slot.
ViewDisposeRemovals(w, view) ==
    LET r == RemoveMediators(w.mm[view], w.om[view], <<>>, DOMAIN w.mm[view])
    IN [w EXCEPT !.mm[view] = r.mm, !.om[view] = r.om]

\* A View.dispose that leaves the singleton slot as it is.
ViewDisposeKeepsSlot(w, view) == ViewDisposeRemovals(w, view)

\* View.dispose
ViewDispose(w, view) == [ViewDisposeRemovals(w, view) EXCEPT !.vi = Undefined]

\* The hooks View.dispose invokes.
ViewDisposeHooks(w, view) ==
    RemoveMediators(w.mm[view], w.om[view], <<>>, DOMAIN w.mm[view]).hooks

\* names.forEach((name) => this.removeCommand(name)) of Controller.dispose:
\* the command map and the observer map of the controller's view.
RECURSIVE RemoveCommands(_, _, _, _)
RemoveCommands(cm, om, controller, names) ==
    IF names = {} THEN [cm |-> cm, om |-> om]
    ELSE LET name == CHOOSE x \in names : TRUE
         IN RemoveCommands(removeCommandMap(cm, name),
                           removeCommandObservers(cm, om, name, controller),
                           controller, names \ {name})

\* Controller.dispose up to the reset of the singleton slot.
ControllerDisposeRemovals(w, controller) ==
    LET view == w.cv[controller]
        r == RemoveCommands(w.cm[controller], w.om[view], controller,
                            DOMAIN w.cm[controller])
    IN [w EXCEPT !.cm[controller] = r.cm, !.om[view] = r.om]

\* Controller.dispose
ControllerDispose(w, controller) ==
    [ControllerDisposeRemovals(w, controller) EXCEPT !.ci = Undefined]

\* names.forEach((name) => this.removeProxy(name)) of Model.dispose.
RECURSIVE RemoveProxies(_, _, _)
RemoveProxies(pm, hooks, names) ==
    IF names = {} THEN [pm |-> pm, hooks |-> hooks]
    ELSE LET name == CHOOSE x \in names : TRUE
         IN RemoveProxies(removeProxy(pm, name),
                          hooks \o removeProxyHooks(pm, name), names \ {name})

\* A Model.dispose that clears the slot and removes nothing.
ModelDisposeRemovesNothing(w, model) == [w EXCEPT !.mi = Undefined]

\* Model.dispose up to the reset of the singleton slot.
ModelDisposeRemovals(w, model) ==
    [w EXCEPT !.pm[model] = RemoveProxies(w.pm[model], <<>>, DOMAIN w.pm[model]).pm]

\* Model.dispose
ModelDispose(w, model) == [ModelDisposeRemovals(w, model) EXCEPT !.mi = Undefined]

\* The hooks Model.dispose invokes.
ModelDisposeHooks(w, model) ==
    RemoveProxies(w.pm[model], <<>>, DOMAIN w.pm[model]).hooks

\* x.dispose() of a View, Model or Controller.
DisposeOf(w, cls, this) ==
    CASE cls = "View" -> ViewDispose(w, this)
      [] cls = "Model" -> ModelDispose(w, this)
      [] OTHER -> ControllerDispose(w, this)

\* x.dispose() up to the reset of the singleton slot.
DisposeRemovalsOf(w, cls, this) ==
    CASE cls = "View" -> ViewDisposeRemovals(w, this)
      [] cls = "Model" -> ModelDisposeRemovals(w, this)
      [] OTHER -> ControllerDisposeRemovals(w, this)

\* The hooks x.dispose() invokes.
DisposeHooks(w, cls, this) ==
    CASE cls = "View" -> ViewDisposeHooks(w, this)
      [] cls = "Model" -> ModelDisposeHooks(w, this)
      [] OTHER -> <<>>

\* A Facade.dispose that starts with the model.
FacadeDisposeOrderModelFirst == <<"Model", "Controller", "View">>

\* Facade.dispose: the registries it disposes, one await after the other.
FacadeDisposeOrder == <<"View", "Controller", "Model">>

\* The object of a class a facade refers to.
FacadeRef(w, facade, cls) ==
    CASE cls = "View" -> w.fr[facade].view
      [] cls = "Model" -> w.fr[facade].model
      [] OTHER -> w.fr[facade].controller

\* Facade.dispose from its k-th await on: the dispose call it makes next,
\* or past the last await the reset of the facade's singleton slot.
FacadeDisposeStage(w, facade, k) ==
    IF k <= Len(FacadeDisposeOrder)
    THEN DisposeOf(w, FacadeDisposeOrder[k], FacadeRef(w, facade, FacadeDisposeOrder[k]))
    ELSE [w EXCEPT !.fi = Undefined]

\* The hooks of that stage.
FacadeDisposeStageHooks(w, facade, k) ==
    IF k <= Len(FacadeDisposeOrder)
    THEN DisposeHooks(w, FacadeDisposeOrder[k],
                      FacadeRef(w, facade, FacadeDisposeOrder[k]))
    ELSE <<>>

\* The state becomes the world w (no dispatch is in flight).
SetWorld(w) ==
    /\ viewInstance' = w.vi
    /\ observerMap' = w.om
    /\ mediatorMap' = w.mm
    /\ controllerInstance' = w.ci
    /\ commandMap' = w.cm
    /\ ctlView' = w.cv
    /\ modelInstance' = w.mi
    /\ proxyMap' = w.pm
    /\ facadeInstance' = w.fi
    /\ facadeRefs' = w.fr
    /\ UNCHANGED mediatorInterests

\* No class has more than MaxInst instances in w.
InstancesWithin(w) ==
    \A cls \in Classes : Cardinality(InstancesOf(w, cls)) <= MaxInst

\* The positions of the life-cycle scenario: an object was disposed; the
\* same object was disposed again right after; the facade's dispose is in
\* flight (for the first time, again); getInstance followed a double dispose.
ScriptDisposed == "disposed"
ScriptDisposedTwice == "disposedTwice"
ScriptDisposing == "disposing"
ScriptDisposingAgain == "disposingAgain"
ScriptFreshAfterTwice == "freshAfterTwice"

\* The last step was cls's dispose on this, and nothing came in between.
JustDisposed(cls, this) ==
    /\ script \in {ScriptDisposed, ScriptDisposedTwice}
    /\ lastOp.op = "dispose"
    /\ lastOp.name = cls
    /\ lastOp.on = this

\* X.getInstance()
GetInstance(cls) ==
    LET w == GetInstanceOf(World, cls)
    IN /\ InstancesWithin(w)
       /\ SetWorld(w)
       /\ lastOp' = Op("getInstance", Undefined, cls, Undefined, SlotOf(w, cls), <<>>)
       /\ script' = IF script = ScriptDisposedTwice /\ lastOp.op = "dispose"
                       /\ lastOp.name = cls
                    THEN ScriptFreshAfterTwice ELSE ScriptStart
       /\ UNCHANGED calls

\* new X()
New(cls) ==
    LET w == IF singletonConstructed(SlotOf(World, cls)) THEN World
             ELSE Constructor(World, cls)
    IN /\ InstancesWithin(w)
       /\ SetWorld(w)
       /\ lastOp' = Op("new", Undefined, cls, Undefined,
                       IF singletonConstructed(SlotOf(World, cls)) THEN Throws
                       ELSE SlotOf(w, cls), <<>>)
       /\ script' = ScriptStart
       /\ UNCHANGED calls

\* x.dispose() of a View, Model or Controller; the record keeps the
\* singleton slot as the removals (and their hooks) found it.
Dispose(cls, this) ==
    /\ SetWorld(DisposeOf(World, cls, this))
    /\ lastOp' = Op("dispose", this, cls,
                    SlotOf(DisposeRemovalsOf(World, cls, this), cls), Undefined,
                    DisposeHooks(World, cls, this))
    /\ script' = IF JustDisposed(cls, this) THEN ScriptDisposedTwice ELSE ScriptDisposed
    /\ UNCHANGED calls

\* facade.dispose(), to its first await.
FacadeDispose(d, facade) ==
    /\ calls[d].st = "free"
    /\ SetWorld(FacadeDisposeStage(World, facade, 1))
    /\ calls' = [calls EXCEPT ![d] = [FreeCall EXCEPT !.st = "run", !.kind = "dispose",
                                                      !.target = facade, !.idx = 1]]
    /\ lastOp' = Op("disposing", facade, "Facade", 1, Undefined,
                    FacadeDisposeStageHooks(World, facade, 1))
    /\ script' = IF JustDisposed("Facade", facade) THEN ScriptDisposingAgain
                 ELSE ScriptDisposing

\* facade.dispose() continues after an await.
FacadeDisposeResume(d) ==
    LET call == calls[d]
        k == call.idx + 1
    IN /\ call.st = "run"
       /\ call.kind = "dispose"
       /\ SetWorld(FacadeDisposeStage(World, call.target, k))
       /\ IF k <= Len(FacadeDisposeOrder)
          THEN /\ calls' = [calls EXCEPT ![d].idx = k]
               /\ lastOp' = Op("disposing", call.target, "Facade", k, Undefined,
                               FacadeDisposeStageHooks(World, call.target, k))
               /\ UNCHANGED script
          ELSE /\ calls' = [calls EXCEPT ![d] = FreeCall]
               /\ lastOp' = Op("dispose", call.target, "Facade", facadeInstance,
                               Undefined, <<>>)
               /\ script' = IF script = ScriptDisposingAgain THEN ScriptDisposedTwice
                            ELSE ScriptDisposed

\* The singletons over time: instances obtained, constructed directly and
\* disposed, the facade's dispose with its awaits, and a mediator, a command
\* and a proxy registered with the current singletons. The application
\* disposes the objects getInstance gives it (and an object it has just
\* disposed, once more); the objects a controller or a facade captured at
\* construction are disposed through them. It makes no call while a
\* facade's dispose is in flight.
NextLife ==
    \/ \E cls \in Classes : Idle /\ GetInstance(cls)
    \/ \E cls \in Classes : Idle /\ New(cls)
    \/ \E cls \in {"View", "Model", "Controller"} :
          \E this \in InstancesOf(World, cls) :
              /\ this = SlotOf(World, cls) \/ JustDisposed(cls, this)
              /\ Idle /\ Dispose(cls, this)
    \/ \E d \in {1}, f \in DOMAIN facadeRefs :
          /\ f = facadeInstance \/ JustDisposed("Facade", f)
          /\ FacadeDispose(d, f)
    \/ \E d \in {1} : FacadeDisposeResume(d)
    \/ \E v \in {viewInstance} \ {Undefined}, m \in {1} :
          Idle /\ RegisterMediator(v, m) /\ script' = ScriptStart
    \/ \E c \in {controllerInstance} \ {Undefined}, k \in {"ControllerTestCommand"} :
          Idle /\ RegisterCommand(c, "X", k) /\ script' = ScriptStart
    \/ \E mo \in {modelInstance} \ {Undefined}, p \in {3} :
          Idle /\ RegisterProxy(mo, p) /\ script' = ScriptStart

SpecLife == Init /\ [][NextLife]_vars

\* ------------------------------------------- scenario: re-registration

\* The notification name the controller scenario is played on (the
\* "ControllerTest2" of the test 'Reregister and Execute').
ScriptName == "X"

\* The position after controller.registerCommand(notificationName,
\* commandClass) on the command map cm.
AfterRegisterCommand(s, cm, notificationName, commandClass) ==
    IF notificationName # ScriptName THEN s
    ELSE IF ~hasCommand(cm, notificationName)
         THEN (IF s = ScriptRemoved THEN ScriptReregistered ELSE ScriptRegistered)
         ELSE (IF cm[notificationName] # commandClass THEN ScriptReplaced ELSE s)

\* The position after controller.removeCommand(notificationName).
AfterRemoveCommand(s, cm, notificationName) ==
    IF notificationName = ScriptName /\ hasCommand(cm, notificationName)
    THEN ScriptRemoved
    ELSE s

\* The controller test 'Reregister and Execute', any number of times and
\* with anything in between: commands registered, replaced, removed and
\* registered again, a mediator sharing the observer lists, notifications
\* sent through the view and commands executed directly.
NextReregister ==
    \/ \E n \in Names, k \in Commands :
          /\ Idle
          /\ RegisterCommand(controllerInstance, n, k)
          /\ script' = AfterRegisterCommand(script, commandMap[controllerInstance], n, k)
    \/ \E n \in Names :
          /\ Idle
          /\ RemoveCommand(controllerInstance, n)
          /\ script' = AfterRemoveCommand(script, commandMap[controllerInstance], n)
    \/ \E m \in {1} : Idle /\ RegisterMediator(viewInstance, m) /\ UNCHANGED script
    \/ \E n \in {"A"} : Idle /\ RemoveMediator(viewInstance, n) /\ UNCHANGED script
    \/ \E d \in {1}, n \in Notifications, h \in Hows :
          NotifyObservers(d, viewInstance, n, h) /\ UNCHANGED script
    \/ \E d \in {1}, n \in Notifications, h \in Hows :
          ExecuteCommand(d, controllerInstance, n, h) /\ UNCHANGED script
    \/ \E d \in {1}, o \in {"ok", "fail"} : Settle(d, o) /\ UNCHANGED script
    \/ \E d \in {1}, h \in Hows : Resume(d, h) /\ UNCHANGED script

SpecReregister == Init /\ [][NextReregister]_vars

\* ------------------------------------------- mediators and proxies by name

\* Mediators and proxies registered, looked up and removed by name on the
\* current view and model, in any order: two mediators and two proxies
\* compete for one name, a third one has a name of its own, and names are
\* looked up and removed whether they are registered or not.
NextNamed ==
    \/ \E m \in Mediators : RegisterMediator(viewInstance, m) /\ UNCHANGED script
    \/ \E n \in MediatorNames : RemoveMediator(viewInstance, n) /\ UNCHANGED script
    \/ \E n \in MediatorNames : RetrieveMediator(viewInstance, n) /\ UNCHANGED script
    \/ \E p \in Proxies : RegisterProxy(modelInstance, p) /\ UNCHANGED script
    \/ \E n \in ProxyNames : RemoveProxy(modelInstance, n) /\ UNCHANGED script
    \/ \E n \in ProxyNames : RetrieveProxy(modelInstance, n) /\ UNCHANGED script

SpecNamed == Init /\ [][NextNamed]_vars

\* ------------------------------------------------- through the facade

\* facade.registerCommand(notificationName, commandClass)
FacadeRegisterCommand(f, notificationName, commandClass) ==
    RegisterCommand(facadeRefs[f].controller, notificationName, commandClass)

\* facade.removeCommand(notificationName)
FacadeRemoveCommand(f, notificationName) ==
    RemoveCommand(facadeRefs[f].controller, notificationName)

\* notifier.sendNotification(name, body, type) of a notifier constructed
\* now: its facade is what Facade.getInstance() returns.
NotifierSendNotification(d, name, body, type, how) ==
    /\ facadeInstance # Undefined
    /\ FacadeSendNotification(d, facadeInstance, name, body, type, how)

\* Notification types sent through the facade.
Types == {"t", "u"}

\* The test 'testSendNotification' at large: commands registered, replaced
\* and removed through the facade, a mediator sharing the observer lists,
\* and notifications sent through the facade and through a notifier, one
\* at a time, with handlers and commands that suspend, return and throw.
NextFacade ==
    \/ \E n \in Names, k \in Commands :
          Idle /\ FacadeRegisterCommand(facadeInstance, n, k) /\ UNCHANGED script
    \/ \E n \in Names : Idle /\ FacadeRemoveCommand(facadeInstance, n) /\ UNCHANGED script
    \/ \E m \in {1} : Idle /\ RegisterMediator(viewInstance, m) /\ UNCHANGED script
    \/ \E n \in {"A"} : Idle /\ RemoveMediator(viewInstance, n) /\ UNCHANGED script
    \/ \E d \in {1}, n \in Names, b \in Bodies, t \in Types, h \in Hows :
          FacadeSendNotification(d, facadeInstance, n, b, t, h) /\ UNCHANGED script
    \/ \E d \in {1}, n \in Names, b \in Bodies, t \in Types, h \in Hows :
          NotifierSendNotification(d, n, b, t, h) /\ UNCHANGED script
    \/ \E d \in {1}, o \in {"ok", "fail"} : Settle(d, o) /\ UNCHANGED script
    \/ \E d \in {1}, h \in Hows : Resume(d, h) /\ UNCHANGED script

SpecFacade == Init /\ [][NextFacade]_vars

\* ------------------------------------------- mediators that change interests

\* Interest lists a mediator of the application may come to report.
InterestLists == {<<"X", "Y">>, <<"Y">>, <<>>}

\* The application changes what a mediator's listNotificationInterests()
\* returns (the mediator computes the list from a field of its own).
SetInterests(mediator, list) ==
    /\ mediatorInterests' = [mediatorInterests EXCEPT ![mediator] = list]
    /\ lastOp' = Op("setInterests", Undefined, getMediatorName(mediator), mediator,
                    Undefined, <<>>)
    /\ UNCHANGED <<viewVars, ctlVars, modelVars, facadeVars, calls>>

\* A mediator whose interest list changes while it is registered and while
\* it is not, next to a mediator of the same name with a constant list;
\* both are registered and removed, and notifications are sent through the
\* view between these operations.
NextInterests ==
    \/ \E m \in {1, 2} : Idle /\ RegisterMediator(viewInstance, m) /\ UNCHANGED script
    \/ \E n \in {"A"} : Idle /\ RemoveMediator(viewInstance, n) /\ UNCHANGED script
    \/ \E l \in InterestLists : Idle /\ SetInterests(1, l) /\ UNCHANGED script
    \/ \E d \in {1}, n \in ViewNotes, h \in Hows :
          NotifyObservers(d, viewInstance, n, h) /\ UNCHANGED script
    \/ \E d \in {1}, o \in {"ok", "fail"} : Settle(d, o) /\ UNCHANGED script
    \/ \E d \in {1}, h \in Hows : Resume(d, h) /\ UNCHANGED script

SpecInterests == Init /\ [][NextInterests]_vars

\* --------------------------------------- mediators, commands and dispose

\* As Init, but the third mediator lists one name twice.
InitRepeatedInterest ==
    /\ FacadeObtained
    /\ mediatorInterests =
          [m \in Mediators |-> IF m = 3 THEN <<"Y", "Y">> ELSE InitialInterests(m)]

\* Mediators of constant interest lists registered (accepted and rejected)
\* and removed on the current view, commands registered and removed through
\* the controller (on the view it captured), and the view disposed and
\* obtained anew.
NextCounted ==
    \/ \E v \in {viewInstance} \ {Undefined}, m \in Mediators :
          RegisterMediator(v, m) /\ UNCHANGED script
    \/ \E v \in {viewInstance} \ {Undefined}, n \in MediatorNames :
          RemoveMediator(v, n) /\ UNCHANGED script
    \/ \E n \in Names, k \in {"ControllerTestCommand"} :
          RegisterCommand(controllerInstance, n, k) /\ UNCHANGED script
    \/ \E n \in Names : RemoveCommand(controllerInstance, n) /\ UNCHANGED script
    \/ \E v \in {viewInstance} \ {Undefined} : Dispose("View", v)
    \/ \E cls \in {"View"} : GetInstance(cls)

SpecCounted == InitRepeatedInterest /\ [][NextCounted]_vars

\* ------------------------------------- lists changed during a dispatch

\* Code runs while a dispatch is in flight: a handler the dispatch has
\* started has not settled yet (the handler's own code, or code that runs
\* while the handler is suspended).
InHandler == \E d \in CallIds : handlerPending(calls[d])

\* Observers and a mediator are attached between dispatches and removed at
\* any time, also from within a handler of a dispatch in flight (an
\* observer removing itself or another one, a mediator unregistering
\* itself).
NextRemoveDuring ==
    \/ \E n \in Names, o \in {x \in AppObservers : x.cb = "cb1"} :
          Idle /\ RegisterObserver(viewInstance, n, o) /\ UNCHANGED script
    \/ \E m \in {1} : Idle /\ RegisterMediator(viewInstance, m) /\ UNCHANGED script
    \/ \E n \in Names, c \in AppContexts :
          (Idle \/ InHandler) /\ RemoveObserver(viewInstance, n, c) /\ UNCHANGED script
    \/ \E n \in {"A"} :
          (Idle \/ InHandler) /\ RemoveMediator(viewInstance, n) /\ UNCHANGED script
    \/ \E d \in {1}, n \in ViewNotes, h \in Hows :
          NotifyObservers(d, viewInstance, n, h) /\ UNCHANGED script
    \/ \E d \in {1}, o \in {"ok", "fail"} : Settle(d, o) /\ UNCHANGED script
    \/ \E d \in {1}, h \in Hows : Resume(d, h) /\ UNCHANGED script

SpecRemoveDuring == Init /\ [][NextRemoveDuring]_vars

\* Observers are removed between dispatches and registered at any time,
\* also from within a handler of a dispatch in flight.
NextRegisterDuring ==
    \/ \E n \in Names, o \in {x \in AppObservers : x.cb = "cb1"} :
          (Idle \/ InHandler) /\ RegisterObserver(viewInstance, n, o) /\ UNCHANGED script
    \/ \E m \in {1} :
          (Idle \/ InHandler) /\ RegisterMediator(viewInstance, m) /\ UNCHANGED script
    \/ \E n \in Names, c \in AppContexts :
          Idle /\ RemoveObserver(viewInstance, n, c) /\ UNCHANGED script
    \/ \E n \in {"A"} : Idle /\ RemoveMediator(viewInstance, n) /\ UNCHANGED script
    \/ \E d \in {1}, n \in ViewNotes, h \in Hows :
          NotifyObservers(d, viewInstance, n, h) /\ UNCHANGED script
    \/ \E d \in {1}, o \in {"ok", "fail"} : Settle(d, o) /\ UNCHANGED script
    \/ \E d \in {1}, h \in Hows : Resume(d, h) /\ UNCHANGED script

SpecRegisterDuring == Init /\ [][NextRegisterDuring]_vars

\* -------------------------------------------- dispatches in flight together

\* Notifications are sent from several call sites, so that dispatches of
\* the same name and of different names are in flight together, their
\* handlers suspending and settling in any order (a call takes the first
\* handle that is free); the observer lists change only while no dispatch
\* is in flight.
NextConcurrent ==
    \/ \E n \in Names, o \in {x \in AppObservers : x.cb = "cb1"} :
          Idle /\ RegisterObserver(viewInstance, n, o) /\ UNCHANGED script
    \/ \E n \in Names, c \in AppContexts :
          Idle /\ RemoveObserver(viewInstance, n, c) /\ UNCHANGED script
    \/ \E d \in {1, 2}, n \in ViewNotes, h \in Hows :
          /\ \A e \in 1..(d - 1) : calls[e].st = "run"
          /\ NotifyObservers(d, viewInstance, n, h)
          /\ UNCHANGED script
    \/ \E d \in {1, 2}, o \in {"ok", "fail"} : Settle(d, o) /\ UNCHANGED script
    \/ \E d \in {1, 2}, h \in Hows : Resume(d, h) /\ UNCHANGED script

SpecConcurrent == Init /\ [][NextConcurrent]_vars

\* ------------------------------------------- singletons disposed and re-made

\* The application disposes the view, the controller and the facade it
\* gets from getInstance and gets them anew, registers and removes commands
\* with the controller getInstance gives it, and sends notifications
\* through the view getInstance gives it, one at a time, with commands
\* that suspend, return and throw. It makes no call while a dispatch or a
\* facade's dispose is in flight.
NextRecreate ==
    \/ \E cls \in {"View", "Controller", "Facade"} : Idle /\ GetInstance(cls)
    \/ \E cls \in {"View", "Controller"} :
          \E this \in {SlotOf(World, cls)} \ {Undefined} : Idle /\ Dispose(cls, this)
    \/ \E d \in {1}, f \in {facadeInstance} \ {Undefined} :
          Idle /\ FacadeDispose(d, f)
    \/ \E d \in {1} : FacadeDisposeResume(d)
    \/ \E c \in {controllerInstance} \ {Undefined}, k \in Commands :
          Idle /\ RegisterCommand(c, "X", k) /\ script' = ScriptStart
    \/ \E c \in {controllerInstance} \ {Undefined} :
          Idle /\ RemoveCommand(c, "X") /\ script' = ScriptStart
    \/ \E d \in {1}, v \in {viewInstance} \ {Undefined}, n \in ViewNotes, h \in Hows :
          Idle /\ NotifyObservers(d, v, n, h) /\ script' = ScriptStart
    \/ \E d \in {1}, o \in {"ok", "fail"} : Settle(d, o) /\ UNCHANGED script
    \/ \E d \in {1}, h \in Hows : Resume(d, h) /\ UNCHANGED script

SpecRecreate == Init /\ [][NextRecreate]_vars

\* --------------------------------------------- objects the application kept

\* The application keeps the views, models and controllers getInstance gave
\* it and calls dispose on any of them, also on one that is no longer the
\* singleton; it registers a mediator, a command and a proxy with the
\* current singletons.
NextKept ==
    \/ \E cls \in {"View", "Model", "Controller"} : GetInstance(cls)
    \/ \E cls \in {"View", "Model", "Controller"} :
          \E this \in InstancesOf(World, cls) : Dispose(cls, this)
    \/ \E v \in {viewInstance} \ {Undefined}, m \in {1} :
          RegisterMediator(v, m) /\ script' = ScriptStart
    \/ \E c \in {controllerInstance} \ {Undefined}, k \in {"ControllerTestCommand"} :
          RegisterCommand(c, "X", k) /\ script' = ScriptStart
    \/ \E mo \in {modelInstance} \ {Undefined}, p \in {3} :
          RegisterProxy(mo, p) /\ script' = ScriptStart

SpecKept == Init /\ [][NextKept]_vars

\* ------------------------------------ a name shared by mediators and commands

\* As Init, but the third mediator is interested in Y, as the second is.
InitSharedName ==
    /\ FacadeObtained
    /\ mediatorInterests =
          [m \in Mediators |-> IF m = 3 THEN <<"Y">> ELSE InitialInterests(m)]

\* Mediators and a command class registered under the names they share and
\* removed in any order between dispatches; notifications sent through the
\* view, one at a time.
NextSharedName ==
    \/ \E m \in Mediators : Idle /\ RegisterMediator(viewInstance, m) /\ script' = ScriptStart
    \/ \E n \in MediatorNames :
          /\ Idle
          /\ RemoveMediator(viewInstance, n)
          /\ script' = IF hasMediator(mediatorMap[viewInstance], n)
                       THEN ScriptRemoved ELSE ScriptStart
    \/ \E n \in Names, k \in {"ControllerTestCommand"} :
          Idle /\ RegisterCommand(controllerInstance, n, k) /\ script' = ScriptStart
    \/ \E n \in Names :
          Idle /\ RemoveCommand(controllerInstance, n) /\ script' = ScriptStart
    \/ \E d \in {1}, n \in ViewNotes, h \in Hows :
          NotifyObservers(d, viewInstance, n, h) /\ UNCHANGED script
    \/ \E d \in {1}, o \in {"ok", "fail"} : Settle(d, o) /\ UNCHANGED script
    \/ \E d \in {1}, h \in Hows : Resume(d, h) /\ UNCHANGED script

SpecSharedName == InitSharedName /\ [][NextSharedName]_vars

\* ------------------------------------------------------------ MacroCommand

\* The MacroCommand subclasses of the application: one run in the default
\* mode, one constructed with sequentialExecution, and one whose
\* initializeMacroCommand adds nothing (the base class's).
MacroCommands == {"ParallelMacroCommand", "SequentialMacroCommand", "EmptyMacroCommand"}

\* constructor(sequentialExeuction = false), as the subclass calls super.
sequentialExecution(macroClass) == macroClass = "SequentialMacroCommand"

\* The number of sub-commands the application's macro commands add.
MaxSubs == 2

\* The subclass's initializeMacroCommand: the classes it passes to
\* addSubCommand, call after call (the two command classes in turn).
initializeMacroCommand(macroClass) ==
    IF macroClass = "EmptyMacroCommand" THEN <<>>
    ELSE [k \in 1..MaxSubs |-> IF k % 2 = 1 THEN "ControllerTestCommand"
                                           ELSE "ControllerTestCommand2"]

\* An entry of #subCommands: the command class with the number of the
\* addSubCommand call that added it.
SubCommand(k, commandClass) == [oid |-> k, ctx |-> <<"sub", k>>, cb |-> commandClass]

\* An addSubCommand that puts the class in front of the list.
addSubCommandFirst(subCommands, commandClass) ==
    <<SubCommand(Len(subCommands) + 1, commandClass)>> \o subCommands

\* MacroCommand.addSubCommand: this.#subCommands.push(commandClass)
addSubCommand(subCommands, commandClass) ==
    Append(subCommands, SubCommand(Len(subCommands) + 1, commandClass))

\* new macroClass(): #subCommands after the constructor ran
\* initializeMacroCommand.
RECURSIVE AddSubCommands(_, _)
AddSubCommands(subCommands, classes) ==
    IF classes = <<>> THEN subCommands
    ELSE AddSubCommands(addSubCommand(subCommands, Head(classes)), Tail(classes))

\* new commandClass() and commandInstance.execute(notification) of one
\* sub-command, up to its first await or its return: the sub-command
\* suspends, returns or throws (execute is an async method: what it throws
\* rejects its promise). It works on the notification object it is given.
subCommandExecute(call, sub, how) ==
    LET started == Append(call.log, Event("start", sub, call.note, sub.cb))
        after == execute(sub.cb, call.note)
    IN CASE how = "suspend" -> [call EXCEPT !.log = started]
         [] how = "ok" -> [call EXCEPT !.note = after,
                              !.log = Append(started, Event("end", sub, after, sub.cb))]
         [] OTHER -> [call EXCEPT
                              !.log = Append(started, Event("fail", sub, call.note, sub.cb))]

\* this.#subCommands.map(...) of the default mode: every sub-command is
\* instantiated and its execute called, one after the other, before
\* anything is awaited.
RECURSIVE MapSubCommands(_, _, _)
MapSubCommands(call, k, hows) ==
    IF k > Len(call.list0) THEN call
    ELSE MapSubCommands(subCommandExecute(call, call.list0[k], hows[k]), k + 1, hows)

\* Controller.executeCommand with a MacroCommand subclass registered for
\* the name: the command is constructed and MacroCommand.execute runs to
\* its first await (Promise.allSettled of all the promises in the default
\* mode, the first sub-command's promise in sequential mode); with no
\* sub-command a sequential execute returns, and executeCommand awaits it.
macroExecute(controller, cms, notification, hows) ==
    LET macroClass == commandClassFor(cms[controller], notification)
        call == [FreeCall EXCEPT !.st = "run", !.kind = "macro", !.target = controller,
                    !.note = notification, !.sent = notification,
                    !.sequential = sequentialExecution(macroClass),
                    !.list0 = AddSubCommands(<<>>, initializeMacroCommand(macroClass))]
    IN IF ~call.sequential THEN MapSubCommands(call, 1, hows)
       ELSE IF call.list0 = <<>> THEN call
       ELSE subCommandExecute(call, call.list0[1], hows[1])

\* The sub-commands of the call that were started and have not settled.
PendingSubCommands(call) ==
    {k \in 1..Len(call.list0) :
        /\ \E p \in 1..Len(call.log) :
              call.log[p].ev = "start" /\ call.log[p].obs = call.list0[k]
        /\ ~\E p \in 1..Len(call.log) :
              call.log[p].ev \in {"end", "fail"} /\ call.log[p].obs = call.list0[k]}

\* A suspended sub-command returns (ok) or throws (fail).
subCommandSettle(call, k, outcome) ==
    LET sub == call.list0[k]
        after == execute(sub.cb, call.note)
    IN IF outcome = "ok"
       THEN [call EXCEPT !.note = after,
                !.log = Append(@, Event("end", sub, after, sub.cb))]
       ELSE [call EXCEPT !.log = Append(@, Event("fail", sub, call.note, sub.cb))]

\* The promise MacroCommand.execute awaits has settled: in the default
\* mode Promise.allSettled, once every sub-command's promise has settled;
\* in sequential mode the promise of the sub-command of this turn.
macroAwaitOver(call) ==
    /\ call.st = "run"
    /\ call.kind = "macro"
    /\ PendingSubCommands(call) = {}

\* MacroCommand.execute after its await, and executeCommand after its own
\* (await command.execute(notification), no try/catch: its promise settles
\* as execute's does). Promise.allSettled is fulfilled whatever the
\* sub-commands' promises did, so the default mode returns; in sequential
\* mode a rejected promise is rethrown by the await and ends the loop,
\* otherwise the loop goes on with the next sub-command or ends.
macroResume(call, how) ==
    IF ~call.sequential THEN [call EXCEPT !.st = "done"]
    ELSE IF call.list0 = <<>> THEN [call EXCEPT !.st = "done"]
    ELSE IF call.log[Len(call.log)].ev = "fail" THEN [call EXCEPT !.st = "failed"]
    ELSE IF call.idx + 1 >= Len(call.list0) THEN [call EXCEPT !.st = "done"]
    ELSE subCommandExecute([call EXCEPT !.idx = @ + 1], call.list0[call.idx + 2], how)

\* controller.executeCommand(notification), the class registered for the
\* name being a MacroCommand.
ExecuteMacroCommand(d, c, notification, hows) ==
    /\ calls[d].st = "free"
    /\ commandClassFor(commandMap[c], notification) \in MacroCommands
    /\ Proceed(d, macroExecute(c, commandMap, notification, hows))
    /\ UNCHANGED <<viewVars, ctlVars, modelVars, facadeVars, mediatorInterests>>

\* A suspended sub-command settles.
SubCommandSettle(d, k, outcome) ==
    /\ calls[d].st = "run"
    /\ calls[d].kind = "macro"
    /\ k \in PendingSubCommands(calls[d])
    /\ Proceed(d, subCommandSettle(calls[d], k, outcome))
    /\ UNCHANGED <<viewVars, ctlVars, modelVars, facadeVars, mediatorInterests>>

\* The macro command continues after its await.
MacroResume(d, how) ==
    /\ macroAwaitOver(calls[d])
    /\ Proceed(d, macroResume(calls[d], how))
    /\ UNCHANGED <<viewVars, ctlVars, modelVars, facadeVars, mediatorInterests>>

\* Simple and macro commands registered, replaced and removed between
\* calls, and executed through Controller.executeCommand, one call at a
\* time, their execute methods (the sub-commands' too) suspending,
\* returning and throwing.
NextMacro ==
    \/ \E n \in Names, k \in MacroCommands \cup {"ControllerTestCommand"} :
          Idle /\ RegisterCommand(controllerInstance, n, k) /\ UNCHANGED script
    \/ \E n \in Names :
          Idle /\ RemoveCommand(controllerInstance, n) /\ UNCHANGED script
    \/ \E d \in {1}, n \in Notifications, h \in Hows :
          /\ commandClassFor(commandMap[controllerInstance], n) \notin MacroCommands
          /\ ExecuteCommand(d, controllerInstance, n, h)
          /\ UNCHANGED script
    \/ \E d \in {1}, o \in {"ok", "fail"} :
          calls[d].kind = "exec" /\ Settle(d, o) /\ UNCHANGED script
    \/ \E d \in {1}, h \in Hows :
          calls[d].kind = "exec" /\ Resume(d, h) /\ UNCHANGED script
    \/ \E d \in {1}, n \in Notifications, hows \in [1..MaxSubs -> Hows] :
          ExecuteMacroCommand(d, controllerInstance, n, hows) /\ UNCHANGED script
    \/ \E d \in {1}, k \in 1..MaxSubs, o \in {"ok", "fail"} :
          SubCommandSettle(d, k, o) /\ UNCHANGED script
    \/ \E d \in {1}, h \in Hows : MacroResume(d, h) /\ UNCHANGED script

SpecMacro == Init /\ [][NextMacro]_vars

\* ------------------------------------------------------------------ claims

\* The call records a state shows: the calls in flight and, right after a
\* call returned, its final state.
CallRecords == {calls[d] : d \in CallIds} \cup {lastOp.call}

\* The handler invocations of a call, in the order they were started.
Starts(log) == SelectSeq(log, LAMBDA e : e.ev = "start")

\* How often x occurs in a sequence.
Count(x, seq) == Cardinality({i \in 1..Len(seq) : seq[i] = x})

\* The application's observer with a given id.
AppObserver(oid) == CHOOSE o \in AppObservers : o.oid = oid

\* The notification handler k of a call was given: the one sent, as the
\* handlers before k left it.
GivenTo(c, starts, k) ==
    IF k = 1 THEN c.sent
    ELSE handlerEffect(starts[k - 1].obs, starts[k - 1].cmd, starts[k - 1].note)

\* A notifyObservers call whose list was not changed under it has invoked
\* the observers of the list (as it stands) in list order, one at a time.
SequentialInOrder(c, list) ==
    LET starts == Starts(c.log)
    IN /\ Len(starts) <= Len(list)
       /\ \A k \in 1..Len(starts) : starts[k].obs = list[k]
       /\ \A p \in 2..Len(c.log) : c.log[p].ev = "start" => c.log[p - 1].ev = "end"
       /\ \A k \in 1..Len(starts) : starts[k].note = GivenTo(c, starts, k)
       /\ c.st = "done" => Len(starts) = Len(list)

\* C1: within one View.notifyObservers call whose observer list is not
\* mutated meanwhile, the observers are invoked in registration order
\* (registerObserver appends, the dispatch follows the list), no handler
\* starts before the previous one has run to completion, and each handler
\* is given the notification as the earlier handlers left it; a completed
\* call has invoked the whole list.
C1_SequentialDispatch ==
    [][ /\ lastOp'.op = "registerObserver" =>
              ListOf(observerMap'[lastOp'.on], lastOp'.name)
                = Append(ListOf(observerMap[lastOp'.on], lastOp'.name),
                         AppObserver(lastOp'.obj))
        /\ \A c \in CallRecords' :
              (c.kind = "view" /\ ~c.mutated) =>
                  SequentialInOrder(c, ListOf(observerMap'[c.target], c.sent.name))
      ]_vars

\* C1 witness: a call returned after two different observers of one name
\* both ran, the second one seeing the first one's mark in the body.
C1_Witness ==
    /\ lastOp.op = "return"
    /\ lastOp.call.st = "done"
    /\ ~lastOp.call.mutated
    /\ LET starts == Starts(lastOp.call.log)
       IN /\ Len(starts) >= 2
          /\ starts[1].obs # starts[2].obs
          /\ starts[2].note # lastOp.call.sent
          /\ lastOp.call.log[2].ev = "end"

\* C2: registerObserver adds exactly one entry for the observer under the
\* name (no dedup) and none elsewhere, and a completed notifyObservers call
\* whose list was not mutated has invoked each observer exactly as often as
\* it stands in the list of the notification's name, each time with the
\* notification that was sent (the first handler gets it as sent).
C2_InvokedAsRegistered ==
    [][ /\ lastOp'.op = "registerObserver" =>
              \A n \in Names, o \in AppObservers :
                  Count(o, ListOf(observerMap'[lastOp'.on], n))
                    = Count(o, ListOf(observerMap[lastOp'.on], n))
                      + (IF n = lastOp'.name /\ o.oid = lastOp'.obj THEN 1 ELSE 0)
        /\ (/\ lastOp'.op = "return"
            /\ lastOp'.call.kind = "view"
            /\ lastOp'.call.st = "done"
            /\ ~lastOp'.call.mutated) =>
              LET c == lastOp'.call
                  starts == Starts(c.log)
                  list == ListOf(observerMap'[c.target], c.sent.name)
                  invoked == [k \in 1..Len(starts) |-> starts[k].obs]
              IN /\ \A o \in AppObservers \cup SeqRange(list) \cup SeqRange(invoked) :
                        Count(o, invoked) = Count(o, list)
                 /\ \A k \in 1..Len(starts) :
                        /\ starts[k].note.name = c.sent.name
                        /\ starts[k].note.type = c.sent.type
                        /\ starts[k].note.body.input = c.sent.body.input
                 /\ Len(starts) > 0 => starts[1].note = c.sent
      ]_vars

\* C2 witness: a call returned having invoked twice an observer registered
\* twice under the name, while an observer registered only under the other
\* name was not invoked.
C2_Witness ==
    /\ lastOp.op = "return"
    /\ lastOp.call.kind = "view"
    /\ lastOp.call.st = "done"
    /\ \E o \in AppObservers, q \in AppObservers, n \in Names \ {lastOp.call.sent.name} :
          /\ Count(o, ListOf(observerMap[lastOp.call.target], lastOp.call.sent.name)) = 2
          /\ Count(o, [k \in 1..Len(Starts(lastOp.call.log)) |->
                          Starts(lastOp.call.log)[k].obs]) = 2
          /\ Count(q, ListOf(observerMap[lastOp.call.target], n)) = 1
          /\ \A e \in SeqRange(lastOp.call.log) : e.obs # q

\* C3: a handler that fails ends the dispatch: nothing is started after the
\* failure, the call does not complete normally but fails, and the
\* observers up to the failing one were each invoked once, in list order.
C3_FailureAborts ==
    \A c \in CallRecords :
        (c.kind = "view" /\ ~c.mutated) =>
            \A p \in 1..Len(c.log) :
                c.log[p].ev = "fail" =>
                    LET starts == Starts(c.log)
                        list == ListOf(observerMap[c.target], c.sent.name)
                    IN /\ p = Len(c.log)
                       /\ c.st \in {"run", "failed"}
                       /\ Len(starts) = c.idx + 1
                       /\ Len(starts) <= Len(list)
                       /\ \A k \in 1..Len(starts) : starts[k].obs = list[k]
                       /\ c.log[p].obs = list[Len(starts)]

\* C3 witness: a call returned failed at the second of three observers, the
\* first invoked once and the third never.
C3_Witness ==
    /\ lastOp.op = "return"
    /\ lastOp.call.kind = "view"
    /\ lastOp.call.st = "failed"
    /\ Len(ListOf(observerMap[lastOp.call.target], lastOp.call.sent.name)) = 3
    /\ Len(Starts(lastOp.call.log)) = 2
    /\ lastOp.call.log[Len(lastOp.call.log)].ev = "fail"


\* C4: a call through the facade (sendNotification / notifyObservers) whose
\* promise is fulfilled has completed its dispatch: every observer of the
\* name was invoked, in list order, and no handler is still pending.
C4_FacadeAwaitsDispatch ==
    \A c \in CallRecords :
        (c.facade /\ ~c.mutated /\ promiseState(c) = "fulfilled") =>
            /\ c.st = "done"
            /\ ~handlerPending(c)
            /\ Len(Starts(c.log)) = Len(ListOf(observerMap[c.target], c.sent.name))

\* C5: a dispatch started through the facade that failed (a handler threw)
\* has rejected the promise the facade's caller holds.
C5_FacadeRejects ==
    \A c \in CallRecords :
        (c.facade /\ c.st = "failed") => promiseState(c) = "rejected"

\* The observers of a view's observer map whose context is ctx, by name.
WithContext(om, notificationName, ctx) ==
    {i \in 1..Len(ListOf(om, notificationName)) :
        compareNotifyContext(ListOf(om, notificationName)[i], ctx)}

\* C6: after removeMediator(name) no observer whose context is a mediator of
\* that name (registered, or rejected at registration) is left in any
\* observer list; and no dispatch invokes the handleNotification of a
\* mediator that is not registered.
C6_RemovedMediatorSilent ==
    [][ /\ lastOp'.op = "removeMediator" =>
              \A m \in Mediators, n \in Names :
                  getMediatorName(m) = lastOp'.name =>
                      WithContext(observerMap'[lastOp'.on], n, <<"med", m>>) = {}
        /\ \A c \in CallRecords' :
              (c.kind = "view" /\ ~c.mutated) =>
                  \A e \in SeqRange(c.log) :
                      e.obs.ctx[1] = "med" =>
                          retrieveMediator(mediatorMap'[c.target],
                                           getMediatorName(e.obs.ctx[2])) = e.obs.ctx[2]
      ]_vars

\* C6 witness: removeMediator has just removed the mediator with the two
\* interests X and Y, and an observer of another party is still listed.
C6_Witness ==
    /\ lastOp.op = "removeMediator"
    /\ lastOp.ret = 1
    /\ Len(listNotificationInterests(lastOp.ret)) = 2
    /\ Entries(observerMap[lastOp.on]) > 0

\* C7: registerMediator for a name that is taken changes neither the
\* mediator map nor any observer list and invokes no hook; and every name of
\* the mediator map maps to one mediator, of that name.
C7_ReregisterNoOp ==
    [][ /\ (lastOp'.op = "registerMediator"
            /\ hasMediator(mediatorMap[lastOp'.on], lastOp'.name)) =>
              /\ mediatorMap' = mediatorMap
              /\ observerMap' = observerMap
              /\ lastOp'.hooks = <<>>
        /\ \A v \in DOMAIN mediatorMap' : \A x \in DOMAIN mediatorMap'[v] :
              /\ mediatorMap'[v][x] \in Mediators
              /\ getMediatorName(mediatorMap'[v][x]) = x
      ]_vars

\* C7 witness: mediator 2 was just offered under the name mediator 1 holds,
\* and mediator 1 still holds it.
C7_Witness ==
    /\ lastOp.op = "registerMediator"
    /\ lastOp.obj = 2
    /\ lastOp.hooks = <<>>
    /\ retrieveMediator(mediatorMap[lastOp.on], lastOp.name) = 1

\* C8: nothing is registered at first, and every step leaves hasMediator /
\* hasProxy / hasCommand of a name true after a registration of the name,
\* false after a removal of the name, and as it was otherwise.
C8_HasReflectsRegistration ==
    /\ \A x \in MediatorNames : ~hasMediator(mediatorMap[viewInstance], x)
    /\ \A x \in ProxyNames : ~hasProxy(proxyMap[modelInstance], x)
    /\ \A x \in Names : ~hasCommand(commandMap[controllerInstance], x)
    /\ [][ LET o == lastOp'
               After(reg, rem, x, before) ==
                   IF o.op = reg /\ o.name = x THEN TRUE
                   ELSE IF o.op = rem /\ o.name = x THEN FALSE
                   ELSE before
           IN /\ \A v \in DOMAIN mediatorMap, x \in MediatorNames :
                    hasMediator(mediatorMap'[v], x)
                      = After("registerMediator", "removeMediator", x,
                              hasMediator(mediatorMap[v], x))
              /\ \A mo \in DOMAIN proxyMap, x \in ProxyNames :
                    hasProxy(proxyMap'[mo], x)
                      = After("registerProxy", "removeProxy", x, hasProxy(proxyMap[mo], x))
              /\ \A c \in DOMAIN commandMap, x \in Names :
                    hasCommand(commandMap'[c], x)
                      = After("registerCommand", "removeCommand", x,
                              hasCommand(commandMap[c], x))
         ]_vars

\* C8 witness: a proxy was just removed (its name no longer registered)
\* while a mediator and a command are registered.
C8_Witness ==
    /\ lastOp.op = "removeProxy"
    /\ lastOp.ret # Undefined
    /\ ~hasProxy(proxyMap[lastOp.on], lastOp.name)
    /\ \E x \in MediatorNames : hasMediator(mediatorMap[viewInstance], x)
    /\ \E x \in Names : hasCommand(commandMap[controllerInstance], x)

\* C9: the view's observer list of a name holds exactly one observer whose
\* context is the controller when the controller has a command for the
\* name, and none when it has not.
C9_OneControllerObserver ==
    \A c \in DOMAIN commandMap, n \in Names :
        Cardinality(WithContext(observerMap[ctlView[c]], n, <<"ctl", c>>))
          = IF hasCommand(commandMap[c], n) THEN 1 ELSE 0

\* C9 witness: registerCommand has just replaced the command of a name: the
\* controller's observer of the name is not the last of the list, so this
\* call did not add it.
C9_Witness ==
    /\ lastOp.op = "registerCommand"
    /\ LET list == ListOf(observerMap[ctlView[lastOp.on]], lastOp.name)
       IN /\ Len(list) >= 2
          /\ list[Len(list)].ctx # <<"ctl", lastOp.on>>
          /\ WithContext(observerMap[ctlView[lastOp.on]], lastOp.name,
                         <<"ctl", lastOp.on>>) # {}

\* What C10 says of one call, given the controller's command map.
ExecutesRegistered(c, cm) ==
    LET registered == commandClassFor(cm, c.sent)
    IN /\ (c.kind = "exec" /\ registered # NoCommand) =>
              /\ Len(c.log) \in {1, 2}
              /\ c.log[1] = Event("start", DirectExecute(c.target), c.sent, registered)
              /\ c.st = "done" =>
                    /\ Len(c.log) = 2
                    /\ c.log[2].ev = "end"
                    /\ c.note = execute(registered, c.sent)
       /\ (c.kind = "exec" /\ registered = NoCommand) =>
              /\ c.log = <<>>
              /\ c.st = "done"
              /\ c.note = c.sent
       /\ (c.kind = "view" /\ registered = NoCommand) =>
              /\ \A e \in SeqRange(c.log) : e.cmd = NoCommand /\ e.obs.cb # "executeCommand"
              /\ c.note = c.sent

\* C10: removeCommand(N) leaves no command for N; executeCommand executes
\* the command class registered for the notification's name, awaiting it,
\* with the notification it was given; with no command for the name neither
\* executeCommand nor a dispatch through the view executes a command, and
\* the notification's body stays as it was sent.
C10_ExecuteRegisteredOnly ==
    [][ /\ lastOp'.op = "removeCommand" =>
              ~hasCommand(commandMap'[lastOp'.on], lastOp'.name)
        /\ \A c \in CallRecords' :
              (c.kind = "exec" => ExecutesRegistered(c, commandMap'[c.target]))
              /\ (c.kind = "view" /\ ~c.mutated =>
                    \A k \in DOMAIN commandMap' :
                        ctlView'[k] = c.target => ExecutesRegistered(c, commandMap'[k]))
      ]_vars

\* C10 witness: executeCommand returned for a name without a command, the
\* body (already processed, result 24) as it was sent.
C10_Witness ==
    /\ lastOp.op = "return"
    /\ lastOp.call.kind = "exec"
    /\ lastOp.call.st = "done"
    /\ lastOp.call.log = <<>>
    /\ lastOp.call.note.body.result = 24
    /\ ~hasCommand(commandMap[lastOp.call.target], lastOp.call.sent.name)

\* The executions of commands a call has started, in order.
Executions(c) == SelectSeq(Starts(c.log), LAMBDA e : e.obs.cb = "executeCommand")

\* A completed call has executed the command class k exactly once, on the
\* notification that was sent, and no other class.
ExecutedOnce(c, k) ==
    /\ Len(Executions(c)) = 1
    /\ Executions(c)[1].cmd = k
    /\ c.note = execute(k, c.sent)

\* The completed calls of a state that carry the scenario's name to the
\* controller: dispatches of the view it observes and direct executions.
ScriptCalls(c, controller) ==
    /\ c.st = "done"
    /\ c.sent.name = ScriptName
    /\ \/ c.kind = "view" /\ c.target = ctlView[controller] /\ ~c.mutated
       \/ c.kind = "exec" /\ c.target = controller

\* C11: removeCommand(N) leaves no observer of the controller under N and
\* no mapping; once N has been registered, removed and registered again,
\* the view holds exactly one observer of the controller under N, and every
\* notification named N that is sent executes the registered class exactly
\* once (not zero times, not twice).
C11_ReregisterExecutesOnce ==
    [][ /\ lastOp'.op = "removeCommand" =>
              /\ WithContext(observerMap'[ctlView[lastOp'.on]], lastOp'.name,
                             <<"ctl", lastOp'.on>>) = {}
              /\ ~hasCommand(commandMap'[lastOp'.on], lastOp'.name)
        /\ script' = ScriptReregistered =>
              /\ hasCommand(commandMap'[controllerInstance], ScriptName)
              /\ Cardinality(WithContext(observerMap'[ctlView[controllerInstance]],
                                         ScriptName, <<"ctl", controllerInstance>>)) = 1
              /\ \A c \in CallRecords' :
                    ScriptCalls(c, controllerInstance) =>
                        ExecutedOnce(c, commandMap'[controllerInstance][ScriptName])
      ]_vars

\* C11 witness: after register, remove, register of ControllerTestCommand2 a
\* notification sent through the view returned with the command executed
\* once on a body that had been processed once before (24 became 48).
C11_Witness ==
    /\ script = ScriptReregistered
    /\ lastOp.op = "return"
    /\ lastOp.call.kind = "view"
    /\ lastOp.call.st = "done"
    /\ lastOp.call.sent.name = ScriptName
    /\ lastOp.call.sent.body.result = 24
    /\ lastOp.call.note.body.result = 48
    /\ Len(Executions(lastOp.call)) = 1

\* C12: registerCommand(N, C2) sets the mapping of N to C2 and, when N had a
\* command, leaves the view's observer lists as they were; once C2 has
\* replaced another class, every notification named N that is sent executes
\* C2 exactly once and never the class it replaced.
C12_ReplaceExecutesNew ==
    [][ /\ lastOp'.op = "registerCommand" =>
              /\ commandMap'[lastOp'.on][lastOp'.name] = lastOp'.obj
              /\ hasCommand(commandMap[lastOp'.on], lastOp'.name) =>
                    observerMap' = observerMap
        /\ script' = ScriptReplaced =>
              \A c \in CallRecords' :
                  ScriptCalls(c, controllerInstance) =>
                      /\ ExecutedOnce(c, commandMap'[controllerInstance][ScriptName])
                      /\ \A e \in SeqRange(c.log) :
                            e.cmd \in {NoCommand, commandMap'[controllerInstance][ScriptName]}
      ]_vars

\* C12 witness: ControllerTestCommand replaced ControllerTestCommand2 and a
\* notification on a processed body (result 24) returned with result 24
\* again: the new class ran (2 * 12), the replaced one (24 + 24) did not.
C12_Witness ==
    /\ script = ScriptReplaced
    /\ lastOp.op = "return"
    /\ lastOp.call.st = "done"
    /\ lastOp.call.sent.name = ScriptName
    /\ lastOp.call.sent.body.result = 24
    /\ lastOp.call.note.body.result = 24
    /\ Len(Executions(lastOp.call)) = 1
    /\ Executions(lastOp.call)[1].cmd = "ControllerTestCommand"

\* C13: in every state reached by registerObserver, removeObserver,
\* registerMediator, removeMediator, registerCommand and removeCommand, every
\* notification name that is a key of a view's observer map has a list of at
\* least one observer (a list that falls empty loses its key).
C13_NoEmptyLists ==
    \A v \in DOMAIN observerMap : \A n \in DOMAIN observerMap[v] :
        Len(observerMap[v][n]) > 0

\* C13 witness: removeMediator removed the mediator interested in X and Y;
\* its observer was the last one under X, whose key is gone, while Y keeps
\* its key for the observers that remain.
C13_Witness ==
    /\ lastOp.op = "removeMediator"
    /\ lastOp.ret = 1
    /\ ~MapHas(observerMap[lastOp.on], "X")
    /\ MapHas(observerMap[lastOp.on], "Y")

\* C14: a View.notifyObservers call for a notification whose name has no
\* observer returns without ever suspending, fulfilled, having invoked no
\* handler and with
\* the notification as it was sent, and changes no observer list, mediator
\* map or command map.
C14_NoObserverNoOp ==
    [][ (/\ lastOp'.op = "return"
         /\ lastOp'.call.kind = "view"
         /\ ~MapHas(observerMap[lastOp'.call.target], lastOp'.call.sent.name)) =>
            /\ calls' = calls
            /\ lastOp'.call.st = "done"
            /\ lastOp'.call.log = <<>>
            /\ lastOp'.call.note = lastOp'.call.sent
            /\ observerMap' = observerMap
            /\ mediatorMap' = mediatorMap
            /\ commandMap' = commandMap
      ]_vars

\* C14 witness: a notification named X was sent through the view while only
\* Y has observers and a mediator is registered; the call returned with no
\* handler invoked.
C14_Witness ==
    /\ lastOp.op = "return"
    /\ lastOp.call.kind = "view"
    /\ lastOp.call.st = "done"
    /\ lastOp.call.log = <<>>
    /\ lastOp.call.sent.name = "X"
    /\ ~MapHas(observerMap[lastOp.call.target], "X")
    /\ MapHas(observerMap[lastOp.call.target], "Y")
    /\ DOMAIN mediatorMap[lastOp.call.target] # {}

\* The registered contents of an instance of a class: the mediators, the
\* proxies, the commands (none for a facade).
ContentsOf(w, cls, this) ==
    CASE cls = "View" -> w.mm[this]
      [] cls = "Model" -> w.pm[this]
      [] cls = "Controller" -> w.cm[this]
      [] OTHER -> EmptyMap

\* The value of World in the next state.
WorldNext ==
    [vi |-> viewInstance', om |-> observerMap', mm |-> mediatorMap',
     ci |-> controllerInstance', cm |-> commandMap', cv |-> ctlView',
     mi |-> modelInstance', pm |-> proxyMap',
     fi |-> facadeInstance', fr |-> facadeRefs']

\* C15: for each of View, Model, Controller and Facade: getInstance with
\* the singleton constructed returns it and changes nothing; with the slot
\* empty it constructs a new object, without contents, leaves the objects
\* that exist as they are, and returns the new singleton; and new X() with
\* the singleton constructed throws and changes no slot, instance or map.
C15_SingletonAccess ==
    [][ LET o == lastOp'
            cls == o.name
            before == SlotOf(World, cls)
        IN /\ (o.op = "getInstance" /\ before # Undefined) =>
                  /\ o.ret = before
                  /\ WorldNext = World
           /\ (o.op = "getInstance" /\ before = Undefined) =>
                  /\ o.ret \notin InstancesOf(World, cls)
                  /\ o.ret \in InstancesOf(WorldNext, cls)
                  /\ SlotOf(WorldNext, cls) = o.ret
                  /\ ContentsOf(WorldNext, cls, o.ret) = EmptyMap
                  /\ \A k \in Classes : \A x \in InstancesOf(World, k) :
                        ContentsOf(WorldNext, k, x) = ContentsOf(World, k, x)
                  /\ observerMap' = [v \in DOMAIN observerMap' |->
                        IF v \in DOMAIN observerMap THEN observerMap[v] ELSE EmptyMap]
           /\ (o.op = "new" /\ before # Undefined) =>
                  /\ o.ret = Throws
                  /\ WorldNext = World
      ]_vars

\* C15 witness: new View() has just thrown while the view singleton holds a
\* mediator, after a second view had been constructed lazily.
C15_Witness ==
    /\ lastOp.op = "new"
    /\ lastOp.name = "View"
    /\ lastOp.ret = Throws
    /\ viewInstance = 2
    /\ DOMAIN mediatorMap[viewInstance] # {}

\* The maps of all instances are in the next state what they are now.
MapsUnchanged ==
    /\ observerMap' = observerMap
    /\ mediatorMap' = mediatorMap
    /\ commandMap' = commandMap
    /\ proxyMap' = proxyMap
    /\ ctlView' = ctlView
    /\ facadeRefs' = facadeRefs

\* C16: a dispose() of a View, Model, Controller or Facade that follows a
\* dispose() of the same object does not throw, invokes no hook, changes no
\* map and leaves the singleton slot empty (for the facade: in each of its
\* stages, all four slots empty at the end); a getInstance() that follows
\* returns a new object, the singleton, with nothing registered (for the
\* facade: with a new model, view and controller, nothing registered).
C16_DisposeTwice ==
    [][ LET o == lastOp'
        IN /\ script' \in {ScriptDisposedTwice, ScriptDisposingAgain} =>
                  /\ o.op \in {"dispose", "disposing"}
                  /\ o.ret # Throws
                  /\ o.hooks = <<>>
                  /\ MapsUnchanged
           /\ script' = ScriptDisposedTwice =>
                  /\ SlotOf(WorldNext, o.name) = Undefined
                  /\ o.name = "Facade" =>
                        \A cls \in Classes : SlotOf(WorldNext, cls) = Undefined
           /\ script' = ScriptFreshAfterTwice =>
                  /\ o.op = "getInstance"
                  /\ o.ret # Throws
                  /\ o.ret \notin InstancesOf(World, o.name)
                  /\ SlotOf(WorldNext, o.name) = o.ret
                  /\ ContentsOf(WorldNext, o.name, o.ret) = EmptyMap
                  /\ o.name = "View" => observerMap'[o.ret] = EmptyMap
                  /\ o.name = "Facade" =>
                        \A cls \in {"View", "Model", "Controller"} :
                            /\ FacadeRef(WorldNext, o.ret, cls) \notin InstancesOf(World, cls)
                            /\ FacadeRef(WorldNext, o.ret, cls) = SlotOf(WorldNext, cls)
                            /\ ContentsOf(WorldNext, cls,
                                          FacadeRef(WorldNext, o.ret, cls)) = EmptyMap
      ]_vars

\* C16 witness: Facade.getInstance() has just returned a second facade after
\* the first one was disposed twice in a row.
C16_Witness ==
    /\ script = ScriptFreshAfterTwice
    /\ lastOp.op = "getInstance"
    /\ lastOp.name = "Facade"
    /\ lastOp.ret = 2
    /\ facadeRefs[2] = [model |-> 2, view |-> 2, controller |-> 2]

\* The objects a map holds.
Held(map) == {map[k] : k \in DOMAIN map}

TornDown(w, cls, this) ==
    /\ ContentsOf(w, cls, this) = EmptyMap
    /\ SlotOf(w, cls) = Undefined

\* The step leaves the registry of a class (slot and maps) as it is.
Untouched(cls) ==
    CASE cls = "View" -> /\ viewInstance' = viewInstance
                         /\ mediatorMap' = mediatorMap
      [] cls = "Model" -> /\ modelInstance' = modelInstance
                          /\ proxyMap' = proxyMap
      [] cls = "Controller" -> /\ controllerInstance' = controllerInstance
                               /\ commandMap' = commandMap
      [] OTHER -> facadeInstance' = facadeInstance

\* What C18 expects Facade.dispose to tear down first, second and third.
C18_Order == <<"View", "Controller", "Model">>

\* C18: Facade.dispose() disposes the facade's view, then its controller,
\* then its model, one per stage with an await in between: stage k tears
\* down the k-th of them when the ones before are torn down already, and
\* leaves the later ones and the facade's slot untouched; the facade's slot
\* is cleared in a last step of its own, when all three are torn down, and
\* all four singleton slots are empty then.
C18_FacadeDisposeOrder ==
    [][ LET o == lastOp'
            f == o.on
        IN /\ (o.op = "disposing" /\ o.name = "Facade") =>
                  /\ o.obj \in 1..3
                  /\ \E d \in CallIds : /\ calls'[d].kind = "dispose"
                                        /\ calls'[d].target = f
                                        /\ calls'[d].st = "run"
                                        /\ calls'[d].idx = o.obj
                  /\ \A k \in 1..3 :
                        LET cls == C18_Order[k]
                        IN /\ k < o.obj =>
                                 /\ TornDown(World, cls, FacadeRef(World, f, cls))
                                 /\ Untouched(cls)
                           /\ k = o.obj =>
                                 TornDown(WorldNext, cls, FacadeRef(World, f, cls))
                           /\ k > o.obj => Untouched(cls)
                  /\ Untouched("Facade")
           /\ (o.op = "dispose" /\ o.name = "Facade") =>
                  /\ \A cls \in {"View", "Controller", "Model"} :
                        /\ TornDown(World, cls, FacadeRef(World, f, cls))
                        /\ Untouched(cls)
                  /\ \A d \in CallIds : calls'[d].kind # "dispose"
                  /\ \A cls \in Classes : SlotOf(WorldNext, cls) = Undefined
      ]_vars

\* C18 witness: a facade's dispose is past its second await: its view and
\* its controller are torn down while its model still holds a proxy and the
\* facade is still the singleton.
C18_Witness ==
    \E d \in CallIds :
        /\ calls[d].st = "run"
        /\ calls[d].kind = "dispose"
        /\ calls[d].idx = 2
        /\ facadeInstance = calls[d].target
        /\ TornDown(World, "View", facadeRefs[calls[d].target].view)
        /\ TornDown(World, "Controller", facadeRefs[calls[d].target].controller)
        /\ proxyMap[facadeRefs[calls[d].target].model] # EmptyMap
        /\ modelInstance = facadeRefs[calls[d].target].model
        /\ lastOp.hooks = <<>>

\* The name of the last operation is registered, in the state before it,
\* with the registry the operation was called on.
NameRegistered(o) ==
    CASE o.op = "removeObserver" -> MapHas(observerMap[o.on], o.name)
      [] o.op \in {"removeMediator", "retrieveMediator"} ->
            hasMediator(mediatorMap[o.on], o.name)
      [] o.op \in {"removeProxy", "retrieveProxy"} -> hasProxy(proxyMap[o.on], o.name)
      [] o.op = "removeCommand" -> hasCommand(commandMap[o.on], o.name)
      [] OTHER -> TRUE

\* C19: removeObserver, removeMediator, removeProxy, removeCommand,
\* retrieveMediator and retrieveProxy called with a name that is not
\* registered do not throw, return the absent value (undefined), invoke no
\* hook and change no observer list, mediator map, command map or proxy map.
C19_UnknownNameNoOp ==
    [][ (/\ lastOp'.op \in {"removeObserver", "removeMediator", "removeProxy",
                            "removeCommand", "retrieveMediator", "retrieveProxy"}
         /\ ~NameRegistered(lastOp')) =>
            /\ lastOp'.ret = Undefined
            /\ lastOp'.hooks = <<>>
            /\ observerMap' = observerMap
            /\ mediatorMap' = mediatorMap
            /\ commandMap' = commandMap
            /\ proxyMap' = proxyMap
      ]_vars

\* C19 witness: retrieveMediator was just called with a name no mediator is
\* registered under, while another mediator, a command and a proxy are
\* registered and the view has observers; it returned undefined.
C19_Witness ==
    /\ lastOp.op = "retrieveMediator"
    /\ lastOp.name = "B"
    /\ lastOp.ret = Undefined
    /\ ~hasMediator(mediatorMap[lastOp.on], "B")
    /\ hasMediator(mediatorMap[lastOp.on], "A")
    /\ DOMAIN commandMap[controllerInstance] # {}
    /\ DOMAIN proxyMap[modelInstance] # {}
    /\ Entries(observerMap[lastOp.on]) > 1

\* C20: an accepted registerMediator(m) makes retrieveMediator(m's name)
\* return m, and it keeps returning m through every step but a
\* removeMediator of that name; retrieveMediator returns what the map holds
\* under the name; removeMediator(name) returns the mediator that was
\* registered under the name, and retrieveMediator(name) is absent after it.
C20_RetrieveAndRemove ==
    [][ LET o == lastOp'
        IN /\ (o.op = "registerMediator" /\ ~hasMediator(mediatorMap[o.on], o.name)) =>
                  retrieveMediator(mediatorMap'[o.on], o.name) = o.obj
           /\ \A v \in DOMAIN mediatorMap : \A x \in DOMAIN mediatorMap[v] :
                  ~(o.op = "removeMediator" /\ o.on = v /\ o.name = x) =>
                      retrieveMediator(mediatorMap'[v], x) = mediatorMap[v][x]
           /\ o.op = "retrieveMediator" =>
                  /\ o.ret = (IF o.name \in DOMAIN mediatorMap[o.on]
                              THEN mediatorMap[o.on][o.name] ELSE Undefined)
                  /\ mediatorMap' = mediatorMap
           /\ (o.op = "removeMediator" /\ hasMediator(mediatorMap[o.on], o.name)) =>
                  /\ o.ret = mediatorMap[o.on][o.name]
                  /\ retrieveMediator(mediatorMap'[o.on], o.name) = Undefined
      ]_vars

\* C20 witness: retrieveMediator("A") has just returned mediator 2, one of
\* the two mediators of that name, while another mediator is registered.
C20_Witness ==
    /\ lastOp.op = "retrieveMediator"
    /\ lastOp.name = "A"
    /\ lastOp.ret = 2
    /\ hasMediator(mediatorMap[lastOp.on], "B")


\* The object a map holds under a name, Undefined when it holds none.
HeldUnder(map, name) == IF name \in DOMAIN map THEN map[name] ELSE Undefined

\* C21: on the Model, registerProxy(p) makes p the proxy retrieveProxy
\* returns for p's name, in place of any proxy registered for that name
\* before; the proxy a name retrieves stays the same object across every
\* step that is neither a registerProxy nor a removeProxy of that name;
\* retrieveProxy returns that object (absent when there is none) and changes
\* nothing; removeProxy(name) returns the proxy that was registered and
\* retrieveProxy(name) is absent afterwards.
C21_ProxyRoundTrip ==
    [][LET o == lastOp'
           pm == proxyMap[modelInstance]
           pmAfter == proxyMap'[modelInstance]
       IN /\ o.op = "registerProxy" =>
                /\ o.name = getProxyName(o.obj)
                /\ HeldUnder(pmAfter, o.name) = o.obj
          /\ o.op = "retrieveProxy" =>
                /\ o.ret = HeldUnder(pm, o.name)
                /\ pmAfter = pm
          /\ o.op = "removeProxy" =>
                /\ o.ret = HeldUnder(pm, o.name)
                /\ HeldUnder(pmAfter, o.name) = Undefined
          /\ \A n \in ProxyNames :
                ~(o.op \in {"registerProxy", "removeProxy"} /\ o.name = n) =>
                    HeldUnder(pmAfter, n) = HeldUnder(pm, n)
    ]_vars

\* A lookup of the shared name returned the second proxy registered for
\* it, while the other name holds its proxy too.
C21_Witness ==
    /\ lastOp.op = "retrieveProxy"
    /\ lastOp.name = "P"
    /\ lastOp.ret = 2
    /\ HeldUnder(proxyMap[modelInstance], "Q") = 3


\* C22: an accepted registerMediator(m) invokes m.onRegister exactly once
\* and no other hook, and onRegister finds m stored (its name retrieves m,
\* so hasMediator is true) and m's observer listed under every name of its interest list;
\* removeMediator(name) of a registered mediator invokes onRemove exactly
\* once on that mediator and no other hook, and onRemove finds the name
\* deleted (it retrieves nothing, so hasMediator is false) and no observer of the mediator listed
\* under any name.
C22_MediatorHooksLast ==
    [][LET o == lastOp'
           mm == mediatorMap[viewInstance]
       IN /\ (o.op = "registerMediator" /\ o.name \notin DOMAIN mm) =>
                /\ Len(o.hooks) = 1
                /\ o.hooks[1].hook = "onRegister"
                /\ o.hooks[1].obj = o.obj
                /\ o.hooks[1].holds = o.obj
                /\ o.hooks[1].listed = SeqRange(listNotificationInterests(o.obj))
          /\ (o.op = "removeMediator" /\ o.name \in DOMAIN mm) =>
                /\ Len(o.hooks) = 1
                /\ o.hooks[1].hook = "onRemove"
                /\ o.hooks[1].obj = mm[o.name]
                /\ o.hooks[1].holds = Undefined
                /\ o.hooks[1].listed = {}
    ]_vars

\* The mediator of two interests was removed while the mediator of the
\* other name stays registered: its onRemove ran.
C22_Witness ==
    /\ lastOp.op = "removeMediator"
    /\ lastOp.ret = 1
    /\ Len(lastOp.hooks) = 1
    /\ "B" \in DOMAIN mediatorMap[viewInstance]


\* C23: Model.registerProxy(p) invokes p.onRegister exactly once and no
\* other hook, and onRegister finds p stored under its name (also when p
\* replaces another proxy of that name); Model.removeProxy(name) of a
\* registered name invokes onRemove exactly once, on the proxy it removes,
\* and onRemove finds the name deleted; removeProxy of a name that is not
\* registered invokes no hook.
C23_ProxyHooksLast ==
    [][LET o == lastOp'
           pm == proxyMap[modelInstance]
       IN /\ o.op = "registerProxy" =>
                /\ Len(o.hooks) = 1
                /\ o.hooks[1].hook = "onRegister"
                /\ o.hooks[1].obj = o.obj
                /\ o.hooks[1].holds = o.obj
          /\ (o.op = "removeProxy" /\ o.name \in DOMAIN pm) =>
                /\ Len(o.hooks) = 1
                /\ o.hooks[1].hook = "onRemove"
                /\ o.hooks[1].obj = pm[o.name]
                /\ o.hooks[1].holds = Undefined
          /\ (o.op = "removeProxy" /\ o.name \notin DOMAIN pm) =>
                o.hooks = <<>>
    ]_vars

\* The shared name was removed while it held the second proxy, and the
\* other name is not registered: the next removal of either finds nothing.
C23_Witness ==
    /\ lastOp.op = "removeProxy"
    /\ lastOp.ret = 2
    /\ Len(lastOp.hooks) = 1
    /\ proxyMap[modelInstance] = EmptyMap


\* C24: with a command class registered for name N through
\* Facade.registerCommand, a Facade.sendNotification(N, body, type), direct
\* or through a Notifier, executes that class and no other, never more than
\* once, on a notification carrying N, the body and the type given, and a
\* dispatch that runs to completion has executed it exactly once; a
\* notification whose name has no command executes none.
C24_FacadeCommandOnce ==
    \A c \in CallRecords :
        c.facade =>
            LET k == commandClassFor(commandMap[facadeRefs[facadeInstance].controller],
                                     c.sent)
                ex == Executions(c)
            IN /\ Len(ex) <= 1
               /\ \A i \in 1..Len(ex) :
                     /\ k # NoCommand
                     /\ ex[i].cmd = k
                     /\ ex[i].note = c.sent
               /\ (k # NoCommand /\ c.st = "done") =>
                     /\ Len(ex) = 1
                     /\ c.note = execute(k, c.sent)
                     /\ c.note.type = c.sent.type

\* A notification of type "u" sent through the facade came back from a
\* completed dispatch in which the mediator's handler ran first and the
\* command then turned the processed body's 24 into 48.
C24_Witness ==
    /\ lastOp.op = "return"
    /\ lastOp.call.facade
    /\ lastOp.call.st = "done"
    /\ lastOp.call.sent.type = "u"
    /\ Len(Starts(lastOp.call.log)) = 2
    /\ Len(Executions(lastOp.call)) = 1
    /\ lastOp.call.sent.body.result = 24
    /\ lastOp.call.note.body.result = 48


\* C25: removeObserver(N, ctx) on a name that has a list removes exactly
\* the last entry of N's list whose context is ctx, whatever its callback
\* (the most recently registered observer of that context): the entries
\* before it and after it stay, in their order; with no entry of that
\* context the observer map is unchanged; the lists of all other names are
\* unchanged in either case.
C25_RemoveObserverFrame ==
    [][LET o == lastOp'
           om == observerMap[o.on]
           old == ListOf(om, o.name)
           new == ListOf(observerMap'[o.on], o.name)
           hits == {i \in 1..Len(old) : old[i].ctx = <<"obj", o.obj>>}
       IN (o.op = "removeObserver" /\ o.name \in DOMAIN om) =>
            /\ \A n \in Names \ {o.name} :
                  ListOf(observerMap'[o.on], n) = ListOf(om, n)
            /\ hits = {} => observerMap'[o.on] = om
            /\ hits # {} =>
                  LET j == CHOOSE i \in hits : \A h \in hits : h <= i
                  IN /\ Len(new) = Len(old) - 1
                     /\ \A i \in 1..(j - 1) : new[i] = old[i]
                     /\ \A i \in j..Len(new) : new[i] = old[i + 1]
    ]_vars

\* After removeObserver("X", context 1) the list of X is the first
\* observer of context 1 followed by the observer of context 2: of the
\* three entries it held, the later entry of context 1 went and the earlier
\* one stayed.
C25_Witness ==
    /\ lastOp.op = "removeObserver"
    /\ lastOp.name = "X"
    /\ lastOp.obj = 1
    /\ [i \in 1..Len(ListOf(observerMap[viewInstance], "X")) |->
            ListOf(observerMap[viewInstance], "X")[i].oid] = <<1, 3>>


\* The observer objects an observer map refers to.
OidsOf(om) == UNION {{x.oid : x \in SeqRange(om[n])} : n \in DOMAIN om}

\* C26: an accepted registerMediator(m) with a non-empty interest list
\* appends, for every name of the list, one entry at the end of that
\* name's observer list (as often as the name occurs in the list), all of
\* them one and the same Observer object, new to the observer map, whose
\* context is m and whose notify method is m's handleNotification, and it
\* leaves the lists of all other names alone; with an empty interest list
\* the observer map is unchanged.
C26_OneObserverPerMediator ==
    [][LET o == lastOp'
           om == observerMap[o.on]
           omAfter == observerMap'[o.on]
           interests == listNotificationInterests(o.obj)
       IN (o.op = "registerMediator" /\ o.name \notin DOMAIN mediatorMap[o.on]) =>
            /\ interests = <<>> => omAfter = om
            /\ interests # <<>> =>
                  \E ob \in {omAfter[interests[1]][Len(omAfter[interests[1]])]} :
                      /\ ob.ctx = <<"med", o.obj>>
                      /\ ob.cb = "handleNotification"
                      /\ ob.oid \notin OidsOf(om)
                      /\ \A n \in Names :
                            ListOf(omAfter, n) =
                                ListOf(om, n) \o [i \in 1..Count(n, interests) |-> ob]
    ]_vars

\* The mediator of two interests was registered when one of its names
\* already had a list: that list got the entry at its end, the other name a
\* list of that entry alone, the same object in both.
C26_Witness ==
    /\ lastOp.op = "registerMediator"
    /\ lastOp.obj = 1
    /\ Len(lastOp.hooks) = 1
    /\ LET x == ListOf(observerMap[viewInstance], "X")
           y == ListOf(observerMap[viewInstance], "Y")
       IN /\ Len(x) = 1
          /\ Len(y) = 2
          /\ x[1] = y[2]
          /\ y[2].ctx = <<"med", 1>>
          /\ y[1].ctx # y[2].ctx


\* The smaller of two numbers.
Min(a, b) == IF a <= b THEN a ELSE b

\* C27: removeMediator(name) of a registered mediator m strips m's observer
\* from the names m's listNotificationInterests() reports at removal, one
\* entry for each occurrence, and from no other name: a name m reported at
\* registration and no longer reports keeps m's entry. A dispatch for such
\* a name still invokes every entry of the list, the removed mediator's
\* handleNotification included.
C27_RemovalUsesCurrentInterests ==
    [][LET o == lastOp'
           mm == mediatorMap[o.on]
           om == observerMap[o.on]
       IN /\ (o.op = "removeMediator" /\ o.name \in DOMAIN mm) =>
                LET m == mm[o.name]
                    now == listNotificationInterests(m)
                IN \A n \in Names :
                      LET before == Cardinality(WithContext(om, n, <<"med", m>>))
                      IN Cardinality(WithContext(observerMap'[o.on], n, <<"med", m>>))
                            = before - Min(before, Count(n, now))
          /\ \A c \in CallRecords' :
                (c.kind = "view" /\ ~c.mutated /\ c.st = "done") =>
                    LET list == ListOf(observerMap'[c.target], c.sent.name)
                        starts == Starts(c.log)
                    IN /\ Len(starts) = Len(list)
                       /\ \A k \in 1..Len(list) : starts[k].obs = list[k]
    ]_vars

\* A dispatch of X returned after it invoked the handleNotification of the
\* mediator that reported X when it was registered and not when it was
\* removed: no mediator is registered any more.
C27_Witness ==
    /\ lastOp.op = "return"
    /\ lastOp.call.kind = "view"
    /\ lastOp.call.st = "done"
    /\ lastOp.call.sent.name = "X"
    /\ mediatorMap[viewInstance] = EmptyMap
    /\ \E e \in SeqRange(lastOp.call.log) :
          e.ev = "start" /\ e.obs.ctx = <<"med", 1>> /\ e.obs.cb = "handleNotification"


\* C28: with constant interest lists and no observer registered by hand
\* with a mediator as its context, in every reachable state and for every
\* view, mediator m and name N, the number of observers of context m in
\* the list of N is the number of times N occurs in m's interest list when
\* the view's mediator map holds m, and zero when it does not.
C28_ObserverCount ==
    \A v \in DOMAIN observerMap, m \in Mediators, n \in Names :
        Cardinality(WithContext(observerMap[v], n, <<"med", m>>))
            = IF HeldUnder(mediatorMap[v], getMediatorName(m)) = m
              THEN Count(n, listNotificationInterests(m))
              ELSE 0

\* A registerMediator was rejected for the mediator of two interests while
\* the mediator sharing its name and the mediator that lists Y twice are
\* registered: Y holds three mediator entries.
C28_Witness ==
    /\ lastOp.op = "registerMediator"
    /\ lastOp.obj = 1
    /\ lastOp.hooks = <<>>
    /\ DOMAIN mediatorMap[lastOp.on] = {"A", "B"}
    /\ Len(ListOf(observerMap[lastOp.on], "Y")) = 3


\* How often a dispatch has invoked the observer x.
Invocations(c, x) ==
    Cardinality({i \in 1..Len(c.log) : c.log[i].ev = "start" /\ c.log[i].obs = x})

\* C29: an observer that is in the list of N when View.notifyObservers(N)
\* starts and that is not itself removed during the dispatch (the list
\* holds it as often as at the start; nothing is registered meanwhile) is
\* never invoked more often than it was listed, and a dispatch that
\* completes has invoked it exactly that often, also when a handler of the
\* dispatch removed another observer of N.
C29_RemovalSkipsNobody ==
    \A c \in CallRecords :
        c.kind = "view" =>
            \A x \in SeqRange(c.list0) :
                Count(x, ListOf(observerMap[c.target], c.sent.name)) = Count(x, c.list0) =>
                    /\ Invocations(c, x) <= Count(x, c.list0)
                    /\ c.st = "done" => Invocations(c, x) = Count(x, c.list0)

\* C30: a View.notifyObservers(N) dispatch invokes only observers that
\* were in the list of N when it started, and no more handlers than that
\* list held, whatever is registered under N while it is in flight.
C30_RegisteredLaterNotInvoked ==
    \A c \in CallRecords :
        c.kind = "view" =>
            /\ \A e \in SeqRange(Starts(c.log)) : e.obs \in SeqRange(c.list0)
            /\ Len(Starts(c.log)) <= Len(c.list0)


\* C31: with dispatches in flight together and the observer lists left
\* alone meanwhile, every View.notifyObservers call on its own has invoked
\* the observers of its own notification's name in list order, each handler
\* started only after the previous handler of the same call completed and
\* given the notification as the call's earlier handlers left it, and a
\* call that completed has invoked each of them exactly once, whatever the
\* other calls have done so far.
C31_ConcurrentCallsIndependent ==
    \A c \in CallRecords :
        c.kind = "view" =>
            LET list == ListOf(observerMap[c.target], c.sent.name)
            IN /\ SequentialInOrder(c, list)
               /\ c.st = "done" =>
                     \A x \in SeqRange(list) : Invocations(c, x) = Count(x, list)

\* Two dispatches of the same name are in flight over a list of two
\* observers: the first call still waits for its first handler while the
\* call started after it has already been through that observer and waits
\* for the second one.
C31_Witness ==
    /\ calls[1].st = "run"
    /\ calls[2].st = "run"
    /\ calls[1].sent.name = calls[2].sent.name
    /\ Len(calls[1].list0) = 2
    /\ handlerPending(calls[1])
    /\ handlerPending(calls[2])
    /\ Len(Starts(calls[1].log)) = 1
    /\ Len(Starts(calls[2].log)) = 2


\* A handler of the call threw.
SomeHandlerFailed(c) == \E e \in SeqRange(c.log) : e.ev = "fail"

\* Every handler the call started has settled.
AllSettled(c) ==
    Cardinality({i \in 1..Len(c.log) : c.log[i].ev = "start"})
        = Cardinality({i \in 1..Len(c.log) : c.log[i].ev \in {"end", "fail"}})

\* The call returned having invoked the whole list of its name.
CompletedAll(c) ==
    /\ c.st = "done"
    /\ AllSettled(c)
    /\ ~SomeHandlerFailed(c)
    /\ [k \in 1..Len(Starts(c.log)) |-> Starts(c.log)[k].obs]
          = ListOf(observerMap[c.target], c.sent.name)

C33_CommandFollowsCurrentView ==
    (/\ lastOp.op = "return"
     /\ lastOp.call.kind = "view"
     /\ lastOp.call.st = "done"
     /\ lastOp.call.target = viewInstance
     /\ controllerInstance # Undefined
     /\ hasCommand(commandMap[controllerInstance], lastOp.call.sent.name))
    => ExecutedOnce(lastOp.call,
                    commandClassFor(commandMap[controllerInstance], lastOp.call.sent))


\* The proxies a model retrieves under some name.
Retrievable(pm) == {retrieveProxy(pm, name) : name \in DOMAIN pm}

\* C34: proxy hooks are paired. A proxy that stops being the proxy its
\* model retrieves under its name, by removeProxy or because registerProxy
\* stored another proxy under the name, receives onRemove exactly once in
\* that step (so that in every state each proxy that received onRegister
\* and is no longer retrievable has received its onRemove).
C34_ProxyHooksPaired ==
    [][\A p \in Retrievable(proxyMap[modelInstance]) :
          p \notin Retrievable(proxyMap'[modelInstance]) =>
              Cardinality({i \in 1..Len(lastOp'.hooks) :
                              /\ lastOp'.hooks[i].hook = "onRemove"
                              /\ lastOp'.hooks[i].obj = p}) = 1
    ]_vars


\* C35: the singleton slot of View, Model and Controller keeps the
\* instance it holds, with what is registered on it, through every step
\* that is not a dispose called on that very instance; in particular a
\* dispose called on an instance disposed before, after getInstance has
\* made a new singleton, leaves the new singleton in its slot.
C35_SlotKeptUntilOwnDispose ==
    [][\A cls \in {"View", "Model", "Controller"} :
          LET s == SlotOf(World, cls)
          IN (/\ s # Undefined
              /\ ~(lastOp'.op = "dispose" /\ lastOp'.name = cls /\ lastOp'.on = s))
             => /\ SlotOf(WorldNext, cls) = s
                /\ lastOp'.op = "dispose" =>
                      ContentsOf(WorldNext, cls, s) = ContentsOf(World, cls, s)
    ]_vars


\* The entries of a list whose context is not ctx, in their order.
Others(list, ctx) == SelectSeq(list, LAMBDA x : ~compareNotifyContext(x, ctx))

\* C36: removal is scoped to its owner. removeMediator of the mediator m
\* leaves, under every name, the observers of every other context (the
\* controller's, other mediators') as they were and in their order, and
\* leaves the command map alone; removeCommand(N) leaves the observers of
\* every context but the controller's as they were, takes no more than
\* one entry from N's list, leaves the lists of the other names and the
\* mediator map alone; and a dispatch that completes afterwards has
\* invoked exactly the observers that remain listed, in order.
C36_RemovalScopedToOwner ==
    [][LET o == lastOp'
           om == observerMap[viewInstance]
           after == observerMap'[viewInstance]
       IN /\ (o.op = "removeMediator" /\ o.ret # Undefined) =>
                /\ \A n \in Names :
                      Others(ListOf(after, n), <<"med", o.ret>>)
                         = Others(ListOf(om, n), <<"med", o.ret>>)
                /\ commandMap' = commandMap
          /\ o.op = "removeCommand" =>
                /\ \A n \in Names :
                      /\ Others(ListOf(after, n), <<"ctl", o.on>>)
                            = Others(ListOf(om, n), <<"ctl", o.on>>)
                      /\ n # o.name => ListOf(after, n) = ListOf(om, n)
                /\ Len(ListOf(after, o.name)) >= Len(ListOf(om, o.name)) - 1
                /\ mediatorMap' = mediatorMap
          /\ (o.op = "return" /\ o.call.kind = "view" /\ o.call.st = "done") =>
                [k \in 1..Len(Starts(o.call.log)) |-> Starts(o.call.log)[k].obs]
                   = ListOf(after, o.call.sent.name)
    ]_vars

\* With the second and the third mediator and the controller all listed
\* under Y, the second mediator was removed (the scenario marks the removal
\* of a registered mediator), and the dispatch of Y that followed has
\* invoked the two parties that remain, the third mediator and the
\* controller.
C36_Witness ==
    /\ script = ScriptRemoved
    /\ lastOp.op = "return"
    /\ lastOp.call.kind = "view"
    /\ lastOp.call.st = "done"
    /\ lastOp.call.sent.name = "Y"
    /\ Len(Starts(lastOp.call.log)) = 2
    /\ {e.obs.ctx : e \in SeqRange(Starts(lastOp.call.log))}
          = {<<"med", 3>>, <<"ctl", controllerInstance>>}
    /\ ~MapHas(observerMap[viewInstance], "X")


\* C37: a failure thrown by a command's execute is not caught: an
\* executeCommand call in which the command, or a sub-command of the
\* MacroCommand it runs (in either mode), threw is never fulfilled (its
\* promise stays pending until it rejects).
C37_ExecuteFailurePropagates ==
    \A c \in CallRecords :
        (c.kind \in {"exec", "macro"} /\ SomeHandlerFailed(c)) => c.st # "done"


\* The notification object as a sub-command started at position p of the
\* log finds it: as it was sent, with what the sub-commands that returned
\* before have done to it.
NoteAt(c, p) ==
    LET ends == {q \in 1..(p - 1) : c.log[q].ev = "end"}
    IN IF ends = {} THEN c.sent
       ELSE c.log[CHOOSE q \in ends : \A r \in ends : r <= q].note

\* C38: MacroCommand.execute runs the sub-commands added with
\* addSubCommand first in, first out: the classes started are, in order,
\* those added, none twice, each given the notification execute was given
\* (the one object, as the sub-commands before left it); an execute that
\* is fulfilled has started every sub-command once and every one has
\* finished; in sequential mode a sub-command is started only when the
\* one before has completed.
C38_SubCommandsInOrder ==
    \A c \in CallRecords :
        c.kind = "macro" =>
            LET added == initializeMacroCommand(
                             commandClassFor(commandMap[c.target], c.sent))
                starts == Starts(c.log)
            IN /\ Len(starts) <= Len(added)
               /\ \A k \in 1..Len(starts) :
                     /\ starts[k].cmd = added[k]
                     /\ starts[k].obs.oid = k
               /\ \A p \in 1..Len(c.log) :
                     c.log[p].ev = "start" => c.log[p].note = NoteAt(c, p)
               /\ c.st = "done" =>
                     /\ Len(starts) = Len(added)
                     /\ PendingSubCommands(c) = {}
                     /\ Len(c.log) = 2 * Len(added)
               /\ c.sequential =>
                     \A p \in 2..Len(c.log) :
                         c.log[p].ev = "start" =>
                             /\ c.log[p - 1].ev = "end"
                             /\ c.log[p - 1].obs.oid = c.log[p].obs.oid - 1

\* A sequential macro command returned fulfilled: its two sub-commands ran
\* one after the other on the notification, whose result went from 0 to
\* 24 and from 24 to 48.
C38_Witness ==
    /\ lastOp.op = "return"
    /\ lastOp.call.kind = "macro"
    /\ lastOp.call.sequential
    /\ lastOp.call.st = "done"
    /\ Len(Starts(lastOp.call.log)) = 2
    /\ lastOp.call.sent.body.result = 0
    /\ lastOp.call.note.body.result = 48

====
